---- MODULE Spec2Model ----
(***************************************************************************)
(* Model of the Google Ads budget analysis tool.                           *)
(*   calculator.py : calculate_google_ads_metrics,                         *)
(*                   generate_detailed_analysis                            *)
(*   helpers.py    : validate_budget, validate_url                         *)
(*   app.py        : the calculator page and its Save handler              *)
(*   database.py   : the analysis_results table and its five operations    *)
(*   saved_analyses.py : the list of saved analyses and its two handlers   *)
(*                                                                         *)
(* Numbers.  Python floats are modelled as exact rationals <<n, d>> with   *)
(* d > 0 in lowest terms.  <<1, 0>> stands for a raised ZeroDivisionError  *)
(* travelling through an expression, <<0, 0>> for a key that is absent     *)
(* from a dict.  Text is a sequence of one-character strings.              *)
(***************************************************************************)
EXTENDS Integers, Sequences, FiniteSets, TLC

VARIABLES
    budget,           \* calculator.py: argument budget
    business_type,    \* calculator.py: argument business_type
    params,           \* the caller's params object (its current contents)
    metrics,          \* last return of calculate_google_ads_metrics
    analysis,         \* last return of generate_detailed_analysis
    first_args,       \* arguments of the first generate_detailed_analysis call
    last_args,        \* arguments of the latest one, as the callee received them
    first_analysis,   \* its return
    ncalls,           \* number of generate_detailed_analysis calls made
    others,           \* how many of them had another budget than the first
    budget_input,     \* helpers.py: argument of validate_budget
    budget_result,    \* its return
    url_input,        \* helpers.py: argument of validate_url
    url_result,       \* its return
    trigger,          \* app.py: the widget whose event started the latest run
    screen,           \* app.py: what the latest run rendered
    messages,         \* the st.error / st.success texts of the latest run
    calc_calls,       \* generate_detailed_analysis calls of the latest run
    save_request,     \* analysis_data handed to the Save handler in that run
    table,            \* database.py: the committed rows of analysis_results
    next_id,          \* the next value of the id sequence
    clock,            \* datetime.utcnow()
    sess,             \* what each database session is in the middle of
    op,               \* the call that returned in the latest step, if any
    returned_ids,     \* the ids save_analysis has returned so far
    open_sessions,    \* sessions made by session_factory() and not closed
    attempt,          \* app.py: loop variable of the Save handler
    outcomes,         \* how each save_analysis call of the handler ended
    sleeps,           \* the time.sleep() arguments of the handler, in order
    save_msgs,        \* the messages the handler showed
    save_pc,          \* where the handler is
    page_retry,       \* saved_analyses.py: retry_count of the page
    retry_count,      \* database.py: retry_count of get_all_analyses
    backoff_time,     \* database.py: backoff_time of get_all_analyses
    queries,          \* queries sent to the store by this page load
    list_sleeps,      \* the time.sleep() arguments of this page load
    list_msgs,        \* the messages the page showed
    list_pc,          \* where the page load is
    analyses,         \* saved_analyses.py: analyses
    page              \* saved_analyses.py: the page in each browser

calcVars == <<budget, business_type, params, metrics, analysis,
              first_args, last_args, first_analysis, ncalls, others>>
budgetVars == <<budget_input, budget_result>>
urlVars == <<url_input, url_result>>
appVars == <<trigger, screen, messages, calc_calls, save_request>>
storeVars == <<table, next_id, clock, sess, op, returned_ids, open_sessions>>
saveVars == <<attempt, outcomes, sleeps, save_msgs, save_pc>>
listVars == <<page_retry, retry_count, backoff_time, queries, list_sleeps,
              list_msgs, list_pc, analyses>>
manageVars == <<page>>
pageVars == <<appVars, storeVars, saveVars, listVars, manageVars>>
vars == <<calcVars, budgetVars, urlVars, pageVars>>

(***************************************************************************)
(* Bounds of the model.                                                    *)
(***************************************************************************)
MaxBudget == 3
MaxCalls == 3
MaxLen == 3
MaxSaves == 2

(***************************************************************************)
(* Rational arithmetic (Python float arithmetic, idealised).               *)
(***************************************************************************)
Abs(x) == IF x < 0 THEN -x ELSE x

RECURSIVE GCD(_, _)
GCD(a, b) == IF b = 0 THEN a ELSE GCD(b, a % b)

Norm(n, d) ==
    IF n = 0 THEN <<0, 1>>
    ELSE LET g == GCD(Abs(n), Abs(d))
             s == IF d < 0 THEN -1 ELSE 1
         IN  <<s * (n \div g), s * (d \div g)>>

Zero == <<0, 1>>
Err == <<1, 0>>
Missing == <<0, 0>>
R(n) == <<n, 1>>
IsErr(a) == a[2] = 0

RAdd(a, b) == IF IsErr(a) \/ IsErr(b) THEN Err
              ELSE Norm(a[1] * b[2] + b[1] * a[2], a[2] * b[2])
RSub(a, b) == IF IsErr(a) \/ IsErr(b) THEN Err
              ELSE Norm(a[1] * b[2] - b[1] * a[2], a[2] * b[2])
RMul(a, b) == IF IsErr(a) \/ IsErr(b) THEN Err
              ELSE Norm(a[1] * b[1], a[2] * b[2])
\* Python's "/" : a zero divisor raises ZeroDivisionError
RDiv(a, b) == IF IsErr(a) \/ IsErr(b) \/ b[1] = 0 THEN Err
              ELSE Norm(a[1] * b[2], a[2] * b[1])
RLeq(a, b) == a[1] * b[2] <= b[1] * a[2]
RLt(a, b) == a[1] * b[2] < b[1] * a[2]
RGt(a, b) == RLt(b, a)

(***************************************************************************)
(* calculator.py: the category tables.                                     *)
(***************************************************************************)
BusinessTypes == {"ecommerce", "services"}

CPC_RANGES ==
    [ecommerce |-> [min |-> R(5), max |-> R(15)],
     services  |-> [min |-> R(8), max |-> R(20)]]

CTR_RANGES ==
    [ecommerce |-> [min |-> <<1, 50>>, max |-> <<1, 25>>],
     services  |-> [min |-> <<3, 200>>, max |-> <<7, 200>>]]

CONVERSION_RATE_RANGES ==
    [ecommerce |-> [min |-> <<1, 100>>, max |-> <<3, 100>>],
     services  |-> [min |-> <<3, 100>>, max |-> <<7, 100>>]]

AVG_ORDER_VALUE_RANGES ==
    [ecommerce |-> [min |-> R(800), max |-> R(2000)],
     services  |-> [min |-> R(1500), max |-> R(5000)]]

(***************************************************************************)
(* Python dicts of parameters: a function on Keys, Missing where the key   *)
(* is absent.  NoneParams is the Python value None.                        *)
(***************************************************************************)
Keys == {"avg_cpc", "ctr", "conversion_rate", "avg_order_value"}
EmptyDict == [k \in Keys |-> Missing]
NoneParams == [k \in Keys |-> <<0, -1>>]

\* dict.get(key, default)
Get(d, k, default) == IF d[k] = Missing THEN default ELSE d[k]

\* a mutant of Mean: the lower edge of the range instead of its midpoint
MeanTakesMin(a, b) == a

\* np.mean([a, b])
Mean(a, b) == RDiv(RAdd(a, b), R(2))

\* a mutant of DictUpdate: keys already present keep their value
DictUpdateKeepsExisting(d, upd) ==
    [k \in Keys |-> IF d[k] # Missing THEN d[k] ELSE upd[k]]

\* d.update(upd): every key of upd overwrites d's
DictUpdate(d, upd) ==
    [k \in Keys |-> IF upd[k] # Missing THEN upd[k] ELSE d[k]]

\* a mutant of CopyUpdate: x = d; x.update(upd) (no copy, the caller's
\* object is written)
AliasUpdate(d, upd) ==
    [new |-> DictUpdate(d, upd), old |-> DictUpdate(d, upd)]

\* x = d.copy(); x.update(upd): new is x, old is d after the statement
CopyUpdate(d, upd) ==
    [new |-> DictUpdate(d, upd), old |-> d]

(***************************************************************************)
(* calculator.py: calculate_google_ads_metrics.                            *)
(***************************************************************************)
ZeroDivisionError == [exception |-> "ZeroDivisionError"]
Raised(r) == "exception" \in DOMAIN r
IsMetrics(r) == "clicks" \in DOMAIN r

\* a mutant of Roi: the budget guard dropped
RoiUnguarded(revenue, b) == RDiv(RSub(revenue, b), b)

\* ((revenue - budget) / budget) if budget > 0 else 0
Roi(revenue, b) ==
    IF RGt(b, Zero) THEN RDiv(RSub(revenue, b), b) ELSE Zero

\* a mutant of Roas: the guard budget > 1
RoasAboveOne(revenue, b) ==
    IF RGt(b, R(1)) THEN RDiv(revenue, b) ELSE Zero

\* revenue / budget if budget > 0 else 0
Roas(revenue, b) ==
    IF RGt(b, Zero) THEN RDiv(revenue, b) ELSE Zero

\* budget / conversions if conversions > 0 else 0
CostPerConversion(b, conversions) ==
    IF RGt(conversions, Zero) THEN RDiv(b, conversions) ELSE Zero

\* clicks / ctr if ctr > 0 else 0
Impressions(clicks, ctr) ==
    IF IsErr(clicks) THEN Err
    ELSE IF RGt(ctr, Zero) THEN RDiv(clicks, ctr) ELSE Zero

CalculateGoogleAdsMetrics(b, bt, p) ==
    LET d == IF p = NoneParams THEN EmptyDict ELSE p
        avg_cpc == Get(d, "avg_cpc",
                       Mean(CPC_RANGES[bt].min, CPC_RANGES[bt].max))
        ctr == Get(d, "ctr",
                   Mean(CTR_RANGES[bt].min, CTR_RANGES[bt].max))
        conversion_rate ==
            Get(d, "conversion_rate",
                Mean(CONVERSION_RATE_RANGES[bt].min,
                     CONVERSION_RATE_RANGES[bt].max))
        avg_order_value ==
            Get(d, "avg_order_value",
                Mean(AVG_ORDER_VALUE_RANGES[bt].min,
                     AVG_ORDER_VALUE_RANGES[bt].max))
        clicks == RDiv(b, avg_cpc)
        impressions == Impressions(clicks, ctr)
        conversions == RMul(clicks, conversion_rate)
        revenue == RMul(conversions, avg_order_value)
        roi == Roi(revenue, b)
        roas == Roas(revenue, b)
        cost_per_conversion == CostPerConversion(b, conversions)
        daily_budget == RDiv(b, R(30))
    IN  IF \E x \in {clicks, impressions, conversions, revenue, roi, roas,
                     cost_per_conversion, daily_budget} : IsErr(x)
        THEN ZeroDivisionError
        ELSE [budget |-> b,
              avg_cpc |-> avg_cpc,
              clicks |-> clicks,
              impressions |-> impressions,
              ctr |-> ctr,
              conversion_rate |-> conversion_rate,
              conversions |-> conversions,
              cost_per_conversion |-> cost_per_conversion,
              avg_order_value |-> avg_order_value,
              revenue |-> revenue,
              roi |-> roi,
              roas |-> roas,
              daily_budget |-> daily_budget,
              monthly_revenue |-> revenue]

(***************************************************************************)
(* calculator.py: generate_detailed_analysis.                              *)
(***************************************************************************)
\* a mutant of PessimisticUpdate: the favourable edge of the CPC range
PessimisticUpdateWrongEdge(bt) ==
    [avg_cpc |-> RMul(CPC_RANGES[bt].min, <<11, 10>>),
     ctr |-> RMul(CTR_RANGES[bt].min, <<9, 10>>),
     conversion_rate |-> RMul(CONVERSION_RATE_RANGES[bt].min, <<9, 10>>),
     avg_order_value |-> RMul(AVG_ORDER_VALUE_RANGES[bt].min, <<9, 10>>)]

PessimisticUpdate(bt) ==
    [avg_cpc |-> RMul(CPC_RANGES[bt].max, <<11, 10>>),
     ctr |-> RMul(CTR_RANGES[bt].min, <<9, 10>>),
     conversion_rate |-> RMul(CONVERSION_RATE_RANGES[bt].min, <<9, 10>>),
     avg_order_value |-> RMul(AVG_ORDER_VALUE_RANGES[bt].min, <<9, 10>>)]

\* a mutant of OptimisticUpdate: the favourable edges themselves, without
\* the 10% margin
OptimisticUpdateNoMargin(bt) ==
    [avg_cpc |-> CPC_RANGES[bt].min,
     ctr |-> CTR_RANGES[bt].max,
     conversion_rate |-> CONVERSION_RATE_RANGES[bt].max,
     avg_order_value |-> AVG_ORDER_VALUE_RANGES[bt].max]

OptimisticUpdate(bt) ==
    [avg_cpc |-> RMul(CPC_RANGES[bt].min, <<9, 10>>),
     ctr |-> RMul(CTR_RANGES[bt].max, <<11, 10>>),
     conversion_rate |-> RMul(CONVERSION_RATE_RANGES[bt].max, <<11, 10>>),
     avg_order_value |-> RMul(AVG_ORDER_VALUE_RANGES[bt].max, <<11, 10>>)]

\* ret is the returned tuple (or the exception that left the function),
\* params the caller's object after the call
GenerateDetailedAnalysis(b, bt, p) ==
    LET d == IF p = NoneParams THEN EmptyDict ELSE p
        base_case == CalculateGoogleAdsMetrics(b, bt, d)
        pess == CopyUpdate(d, PessimisticUpdate(bt))
        pessimistic_case == CalculateGoogleAdsMetrics(b, bt, pess.new)
        opt == CopyUpdate(pess.old, OptimisticUpdate(bt))
        optimistic_case == CalculateGoogleAdsMetrics(b, bt, opt.new)
    IN  IF Raised(base_case)
        THEN [ret |-> base_case, params |-> p]
        ELSE IF Raised(pessimistic_case)
        THEN [ret |-> pessimistic_case,
              params |-> IF p = NoneParams THEN p ELSE pess.old]
        ELSE IF Raised(optimistic_case)
        THEN [ret |-> optimistic_case,
              params |-> IF p = NoneParams THEN p ELSE opt.old]
        ELSE [ret |-> [base |-> base_case,
                       pessimistic |-> pessimistic_case,
                       optimistic |-> optimistic_case],
              params |-> IF p = NoneParams THEN p ELSE opt.old]

(***************************************************************************)
(* Inputs of the calculator.                                               *)
(***************************************************************************)
Budgets == {R(-1), R(0), R(10000)} \cup {R(k) : k \in 1..MaxBudget}

CpcChoices(bt) ==
    {Missing, Zero, R(1), CPC_RANGES[bt].min, CPC_RANGES[bt].max}
CtrChoices(bt) ==
    {Missing, Zero, CTR_RANGES[bt].min, CTR_RANGES[bt].max}
ConvChoices(bt) ==
    {Missing, Zero, CONVERSION_RATE_RANGES[bt].min,
     CONVERSION_RATE_RANGES[bt].max}
AovChoices(bt) ==
    {Missing, AVG_ORDER_VALUE_RANGES[bt].min, AVG_ORDER_VALUE_RANGES[bt].max}

ParamChoices(bt) ==
    {NoneParams} \cup
    {[avg_cpc |-> a, ctr |-> c, conversion_rate |-> v, avg_order_value |-> o] :
        a \in CpcChoices(bt), c \in CtrChoices(bt),
        v \in ConvChoices(bt), o \in AovChoices(bt)}

\* the smaller set used where calls are repeated
FewParamChoices(bt) ==
    {NoneParams} \cup
    {[avg_cpc |-> a, ctr |-> c, conversion_rate |-> v, avg_order_value |-> o] :
        a \in {Missing, Zero, CPC_RANGES[bt].min},
        c \in {Missing, CTR_RANGES[bt].max},
        v \in {Missing, CONVERSION_RATE_RANGES[bt].min},
        o \in {Missing, AVG_ORDER_VALUE_RANGES[bt].max}}

NoResult == [none |-> TRUE]
NoArgs == [none |-> TRUE]
NoText == <<>>

CalcIdle ==
    /\ budget = Zero
    /\ business_type = "ecommerce"
    /\ params = NoneParams
    /\ metrics = NoResult
    /\ analysis = NoResult
    /\ first_args = NoArgs
    /\ last_args = NoArgs
    /\ first_analysis = NoResult
    /\ ncalls = 0
    /\ others = 0

BudgetIdle == budget_input = NoText /\ budget_result = NoResult
UrlIdle == url_input = NoText /\ url_result = NoResult

AppIdle ==
    /\ trigger = "none"
    /\ screen = "none"
    /\ messages = {}
    /\ calc_calls = 0
    /\ save_request = NoResult

NoOp == [name |-> "none"]
Sessions == {"s1", "s2"}
IdleSession == [pc |-> "idle"]

StoreIdle ==
    /\ table = {}
    /\ next_id = 1
    /\ clock = 0
    /\ sess = [s \in Sessions |-> IdleSession]
    /\ op = NoOp
    /\ returned_ids = {}
    /\ open_sessions = 0

SaveIdle ==
    /\ attempt = 0
    /\ outcomes = <<>>
    /\ sleeps = <<>>
    /\ save_msgs = {}
    /\ save_pc = "none"

ListIdle ==
    /\ page_retry = 0
    /\ retry_count = 0
    /\ backoff_time = 0
    /\ queries = 0
    /\ list_sleeps = <<>>
    /\ list_msgs = {}
    /\ list_pc = "none"
    /\ analyses = NoResult

ClosedPage ==
    [pc |-> "closed", widgets |-> FALSE, selected |-> [none |-> TRUE],
     notes |-> <<>>, is_saved |-> FALSE, button |-> "none", calls |-> 0,
     raised |-> FALSE, shown |-> {}]

ManageIdle == page = [s \in Sessions |-> ClosedPage]

PagesIdle == AppIdle /\ StoreIdle /\ SaveIdle /\ ListIdle /\ ManageIdle

(***************************************************************************)
(* The calculator called by a client: one call of each function (SpecCalc) *)
(* and repeated calls of generate_detailed_analysis (SpecRepeat).          *)
(***************************************************************************)
InitCalc ==
    /\ budget \in Budgets
    /\ business_type \in BusinessTypes
    /\ params \in ParamChoices(business_type)
    /\ metrics = NoResult
    /\ analysis = NoResult
    /\ first_args = NoArgs
    /\ last_args = NoArgs
    /\ first_analysis = NoResult
    /\ ncalls = 0
    /\ others = 0
    /\ BudgetIdle
    /\ UrlIdle
    /\ PagesIdle

\* metrics = calculate_google_ads_metrics(budget, business_type, params)
Calculate ==
    /\ metrics = NoResult
    /\ metrics' = CalculateGoogleAdsMetrics(budget, business_type, params)
    /\ UNCHANGED <<budget, business_type, params, analysis, first_args,
                   last_args, first_analysis, ncalls, others>>
    /\ UNCHANGED <<budgetVars, urlVars, pageVars>>

\* analysis = generate_detailed_analysis(budget, business_type, params)
AnalyzeUpTo(n) ==
    /\ ncalls < n
    /\ LET args == [budget |-> budget, business_type |-> business_type,
                    params |-> params]
           r == GenerateDetailedAnalysis(budget, business_type, params)
       IN  /\ analysis' = r.ret
           /\ params' = r.params
           /\ last_args' = args
           /\ first_args' = IF ncalls = 0 THEN args ELSE first_args
           /\ first_analysis' = IF ncalls = 0 THEN r.ret ELSE first_analysis
    /\ ncalls' = ncalls + 1
    /\ others' = IF ncalls > 0 /\ budget # first_args.budget
                  THEN others + 1 ELSE others
    /\ UNCHANGED <<budget, business_type, metrics>>
    /\ UNCHANGED <<budgetVars, urlVars, pageVars>>

AnalyzeOnce == AnalyzeUpTo(1)

NextCalc == Calculate \/ AnalyzeOnce

SpecCalc == InitCalc /\ [][NextCalc]_vars

InitRepeat ==
    /\ budget \in Budgets
    /\ business_type \in BusinessTypes
    /\ params \in FewParamChoices(business_type)
    /\ metrics = NoResult
    /\ analysis = NoResult
    /\ first_args = NoArgs
    /\ last_args = NoArgs
    /\ first_analysis = NoResult
    /\ ncalls = 0
    /\ others = 0
    /\ BudgetIdle
    /\ UrlIdle
    /\ PagesIdle

Analyze == AnalyzeUpTo(MaxCalls)

\* between two calls the client picks another budget for the next one
SetBudget ==
    /\ ncalls >= 1
    /\ ncalls < MaxCalls
    /\ \E b \in Budgets : b # budget /\ budget' = b
    /\ UNCHANGED <<business_type, params, metrics, analysis, first_args,
                   last_args, first_analysis, ncalls, others>>
    /\ UNCHANGED <<budgetVars, urlVars, pageVars>>

NextRepeat == Analyze \/ SetBudget

SpecRepeat == InitRepeat /\ [][NextRepeat]_vars

(***************************************************************************)
(* Claims about the calculator.                                            *)
(***************************************************************************)
Provided(p, k) == p # NoneParams /\ p[k] # Missing
NoOverrides(p) == p = NoneParams \/ p = EmptyDict
One == R(1)

\* a valid (partial) CampaignParameters: cpc > 0, ctr and conversion rate
\* in [0, 1], aov > 0
ValidCampaignParameters(p) ==
    /\ Provided(p, "avg_cpc") => RGt(p.avg_cpc, Zero)
    /\ Provided(p, "ctr") => RLeq(Zero, p.ctr) /\ RLeq(p.ctr, One)
    /\ Provided(p, "conversion_rate") =>
           RLeq(Zero, p.conversion_rate) /\ RLeq(p.conversion_rate, One)
    /\ Provided(p, "avg_order_value") => RGt(p.avg_order_value, Zero)

Within(v, range) == RLeq(range.min, v) /\ RLeq(v, range.max)

\* every supplied override lies in its category range
InCategoryRanges(bt, p) ==
    /\ Provided(p, "avg_cpc") => Within(p.avg_cpc, CPC_RANGES[bt])
    /\ Provided(p, "ctr") => Within(p.ctr, CTR_RANGES[bt])
    /\ Provided(p, "conversion_rate") =>
           Within(p.conversion_rate, CONVERSION_RATE_RANGES[bt])
    /\ Provided(p, "avg_order_value") =>
           Within(p.avg_order_value, AVG_ORDER_VALUE_RANGES[bt])

IsCases(a) == "base" \in DOMAIN a

ScenarioOrdered(a) ==
    /\ RLeq(a.pessimistic.roi, a.base.roi)
    /\ RLeq(a.base.roi, a.optimistic.roi)
    /\ RLeq(a.pessimistic.roas, a.base.roas)
    /\ RLeq(a.base.roas, a.optimistic.roas)

\* C1 as stated: for every budget > 0, category and valid CampaignParameters
\* overrides, generate_detailed_analysis returns cases with
\* pessimistic <= base <= optimistic in roi and in roas.
C1_OrderingForAllValidOverrides ==
    (/\ ncalls = 1
     /\ RGt(first_args.budget, Zero)
     /\ ValidCampaignParameters(first_args.params))
    => (IsCases(analysis) /\ ScenarioOrdered(analysis))

\* C1 amended: for every budget > 0, category and overrides that each lie in
\* the category's [min, max] range (or are absent),
\* generate_detailed_analysis returns cases with
\* pessimistic <= base <= optimistic in roi and in roas.
C1_OrderingWithinRanges ==
    (/\ ncalls = 1
     /\ RGt(first_args.budget, Zero)
     /\ InCategoryRanges(first_args.business_type, first_args.params))
    => (IsCases(analysis) /\ ScenarioOrdered(analysis))

C1_Witness ==
    /\ ncalls = 1
    /\ first_args.budget = R(10000)
    /\ InCategoryRanges(first_args.business_type, first_args.params)
    /\ Provided(first_args.params, "avg_cpc")
    /\ first_args.params.avg_cpc = CPC_RANGES[first_args.business_type].max
    /\ Provided(first_args.params, "conversion_rate")
    /\ IsCases(analysis)
    /\ ScenarioOrdered(analysis)
    /\ RLt(analysis.pessimistic.roas, analysis.base.roas)

\* C2 as stated: calculate_google_ads_metrics never raises, whatever the
\* budget, category and overrides (a cpc, ctr or conversion rate of 0
\* included), and a field whose divisor is 0 is 0.
C2_TotalNeverRaises ==
    metrics # NoResult =>
        /\ IsMetrics(metrics)
        /\ metrics.avg_cpc = Zero => metrics.clicks = Zero
        /\ metrics.ctr = Zero => metrics.impressions = Zero
        /\ metrics.budget = Zero => metrics.roi = Zero /\ metrics.roas = Zero
        /\ metrics.conversions = Zero => metrics.cost_per_conversion = Zero

\* the parameter k of the record m is the override when one was supplied
\* and the midpoint of the category range otherwise
Resolved(m, p, k, range) ==
    IF Provided(p, k) THEN m[k] = p[k]
    ELSE RAdd(m[k], m[k]) = RAdd(range.min, range.max)

\* C3: for every budget B > 0, category and partial CampaignParameters
\* overrides, calculate_google_ads_metrics returns the reference derivation
\* of the specification: supplied parameters verbatim, the others the
\* midpoint of the category range, clicks = B/cpc, impressions = clicks/ctr
\* (0 if ctr = 0), conversions = clicks*conv_rate, revenue = conversions*aov,
\* roi = (revenue-B)/B, roas = revenue/B, cost_per_conversion = B/conversions
\* (0 if conversions = 0), daily_budget = B/30; and for B = 10000, ecommerce,
\* no overrides: clicks 1000, conversions 20, revenue 28000, roi 1.8,
\* roas 2.8.
C3_ReferenceDerivation ==
    (/\ metrics # NoResult
     /\ RGt(budget, Zero)
     /\ ValidCampaignParameters(params))
    => /\ IsMetrics(metrics)
       /\ metrics.budget = budget
       /\ Resolved(metrics, params, "avg_cpc", CPC_RANGES[business_type])
       /\ Resolved(metrics, params, "ctr", CTR_RANGES[business_type])
       /\ Resolved(metrics, params, "conversion_rate",
                   CONVERSION_RATE_RANGES[business_type])
       /\ Resolved(metrics, params, "avg_order_value",
                   AVG_ORDER_VALUE_RANGES[business_type])
       /\ RMul(metrics.clicks, metrics.avg_cpc) = budget
       /\ IF metrics.ctr = Zero THEN metrics.impressions = Zero
          ELSE RMul(metrics.impressions, metrics.ctr) = metrics.clicks
       /\ metrics.conversions = RMul(metrics.clicks, metrics.conversion_rate)
       /\ metrics.revenue = RMul(metrics.conversions, metrics.avg_order_value)
       /\ RMul(metrics.roi, budget) = RSub(metrics.revenue, budget)
       /\ RMul(metrics.roas, budget) = metrics.revenue
       /\ IF metrics.conversions = Zero
          THEN metrics.cost_per_conversion = Zero
          ELSE RMul(metrics.cost_per_conversion, metrics.conversions) = budget
       /\ RMul(metrics.daily_budget, R(30)) = budget
       /\ metrics.monthly_revenue = metrics.revenue
       /\ (budget = R(10000) /\ business_type = "ecommerce"
             /\ NoOverrides(params))
          => /\ metrics.clicks = R(1000)
             /\ metrics.conversions = R(20)
             /\ metrics.revenue = R(28000)
             /\ metrics.roi = <<9, 5>>
             /\ metrics.roas = <<14, 5>>

C3_Witness ==
    /\ metrics # NoResult
    /\ budget = R(10000)
    /\ business_type = "ecommerce"
    /\ params = EmptyDict
    /\ IsMetrics(metrics)
    /\ metrics.clicks = R(1000)
    /\ metrics.roi = <<9, 5>>

\* max * 1.10 for cpc, min * 0.90 for the other three
ForcedPessimistic ==
    [ecommerce |-> [avg_cpc |-> <<33, 2>>, ctr |-> <<9, 500>>,
                    conversion_rate |-> <<9, 1000>>,
                    avg_order_value |-> R(720)],
     services  |-> [avg_cpc |-> R(22), ctr |-> <<27, 2000>>,
                    conversion_rate |-> <<27, 1000>>,
                    avg_order_value |-> R(1350)]]

\* min * 0.90 for cpc, max * 1.10 for the other three
ForcedOptimistic ==
    [ecommerce |-> [avg_cpc |-> <<9, 2>>, ctr |-> <<11, 250>>,
                    conversion_rate |-> <<33, 1000>>,
                    avg_order_value |-> R(2200)],
     services  |-> [avg_cpc |-> <<36, 5>>, ctr |-> <<77, 2000>>,
                    conversion_rate |-> <<77, 1000>>,
                    avg_order_value |-> R(5500)]]

HasParameters(m, forced) == \A k \in Keys : m[k] = forced[k]

\* C4: in the cases generate_detailed_analysis returns, the pessimistic case
\* has cpc = max*1.10 and ctr, conversion rate, aov = min*0.90, the
\* optimistic case cpc = min*0.90 and ctr, conversion rate, aov = max*1.10,
\* whatever the base overrides hold: both records are those of
\* (budget, category) and the forced values alone.
C4_ForcedScenarioParameters ==
    (ncalls = 1 /\ IsCases(analysis)) =>
        LET b == first_args.budget
            bt == first_args.business_type
        IN  /\ HasParameters(analysis.pessimistic, ForcedPessimistic[bt])
            /\ HasParameters(analysis.optimistic, ForcedOptimistic[bt])
            /\ analysis.pessimistic =
                   CalculateGoogleAdsMetrics(b, bt, ForcedPessimistic[bt])
            /\ analysis.optimistic =
                   CalculateGoogleAdsMetrics(b, bt, ForcedOptimistic[bt])

C4_Witness ==
    /\ ncalls = 1
    /\ IsCases(analysis)
    /\ \A k \in Keys : Provided(first_args.params, k)
    /\ first_args.params.avg_cpc = R(1)
    /\ analysis.base.avg_cpc = R(1)
    /\ analysis.pessimistic.avg_cpc = <<33, 2>>
    /\ analysis.optimistic.avg_cpc = <<9, 2>>

\* C5: a client that calls generate_detailed_analysis again with the budget,
\* the category and the overrides object of its first call (other calls in
\* between or not) hands the callee the same argument values and gets the
\* same return, field for field: the calls leave nothing behind, neither in
\* the overrides object nor elsewhere.
C5_Deterministic ==
    (ncalls >= 2 /\ last_args.budget = first_args.budget) =>
        /\ last_args = first_args
        /\ analysis = first_analysis

C5_Witness ==
    /\ ncalls = 3
    /\ others = 1
    /\ last_args = first_args
    /\ Provided(first_args.params, "avg_cpc")
    /\ IsCases(analysis)
    /\ analysis = first_analysis

\* C6: for budget 0, any category and no overrides,
\* calculate_google_ads_metrics returns a record with roi, roas,
\* cost_per_conversion, clicks, conversions and revenue all 0.
C6_ZeroBudget ==
    (metrics # NoResult /\ budget = Zero /\ NoOverrides(params)) =>
        /\ IsMetrics(metrics)
        /\ metrics.roi = Zero
        /\ metrics.roas = Zero
        /\ metrics.cost_per_conversion = Zero
        /\ metrics.clicks = Zero
        /\ metrics.conversions = Zero
        /\ metrics.revenue = Zero

C6_Witness ==
    /\ metrics # NoResult
    /\ budget = Zero
    /\ params = EmptyDict
    /\ business_type = "services"
    /\ IsMetrics(metrics)
    /\ metrics.roi = Zero
    /\ metrics.cost_per_conversion = Zero

StrictlyBetween(lo, v, hi) == RLt(lo, v) /\ RLt(v, hi)

ScenarioStrictlyOrdered(a) ==
    /\ StrictlyBetween(a.pessimistic.roas, a.base.roas, a.optimistic.roas)
    /\ StrictlyBetween(a.pessimistic.clicks, a.base.clicks,
                       a.optimistic.clicks)
    /\ StrictlyBetween(a.pessimistic.revenue, a.base.revenue,
                       a.optimistic.revenue)

FirstBase == first_analysis.base
LastBase == analysis.base

RECURSIVE TextsUpTo(_, _)
TextsUpTo(alphabet, n) ==
    IF n = 0 THEN {<<>>}
    ELSE LET shorter == TextsUpTo(alphabet, n - 1)
         IN  shorter \cup {Append(t, c) : t \in shorter, c \in alphabet}

StartsWith(s, prefix) ==
    /\ Len(s) >= Len(prefix)
    /\ SubSeq(s, 1, Len(prefix)) = prefix

Digits == {"0", "1", "2", "3", "4", "5", "6", "7", "8", "9"}
DigitValue(c) ==
    CASE c = "0" -> 0 [] c = "1" -> 1 [] c = "2" -> 2 [] c = "3" -> 3
      [] c = "4" -> 4 [] c = "5" -> 5 [] c = "6" -> 6 [] c = "7" -> 7
      [] c = "8" -> 8 [] c = "9" -> 9

RECURSIVE Pow10(_)
Pow10(k) == IF k = 0 THEN 1 ELSE 10 * Pow10(k - 1)

(***************************************************************************)
(* helpers.py: validate_budget.                                            *)
(***************************************************************************)
PyNone == <<0, -1>>
ValueError == <<2, 0>>

\* a mutant of StripNonNumeric: the pattern [^\d], which drops the point too
StripNonDigits(s) == SelectSeq(s, LAMBDA c : c \in Digits)

\* re.sub(r'[^\d.]', '', budget)
StripNonNumeric(s) == SelectSeq(s, LAMBDA c : c \in Digits \/ c = ".")

\* the integer written by a text of digits (0 for the empty text)
RECURSIVE DigitsToInt(_)
DigitsToInt(s) ==
    IF s = <<>> THEN 0
    ELSE 10 * DigitsToInt(SubSeq(s, 1, Len(s) - 1)) + DigitValue(s[Len(s)])

\* the text without its leading and trailing spaces
RECURSIVE TrimSpaces(_)
TrimSpaces(s) ==
    IF s # <<>> /\ s[1] = " " THEN TrimSpaces(Tail(s))
    ELSE IF s # <<>> /\ s[Len(s)] = " "
    THEN TrimSpaces(SubSeq(s, 1, Len(s) - 1))
    ELSE s

\* float(s) for a text of digits, points, signs and spaces: surrounding
\* spaces are ignored, one leading sign is allowed, then digits with at most
\* one point and at least one digit; anything else raises ValueError
ParseFloat(s) ==
    LET t == TrimSpaces(s)
        signed == t # <<>> /\ t[1] \in {"+", "-"}
        body == IF signed THEN Tail(t) ELSE t
        points == {i \in 1..Len(body) : body[i] = "."}
        digits == SelectSeq(body, LAMBDA c : c \in Digits)
        decimals == IF points = {} THEN 0
                    ELSE Len(body) - (CHOOSE i \in points : TRUE)
        magnitude == Norm(DigitsToInt(digits), Pow10(decimals))
    IN  IF \/ \E i \in 1..Len(body) : body[i] \notin Digits \cup {"."}
           \/ Cardinality(points) > 1
           \/ digits = <<>>
        THEN ValueError
        ELSE IF signed /\ t[1] = "-"
        THEN <<-magnitude[1], magnitude[2]>>
        ELSE magnitude

ValidateBudget(raw) ==
    IF raw = <<>> THEN [valid |-> FALSE, value |-> PyNone]
    ELSE LET value == ParseFloat(StripNonNumeric(raw))
         IN  IF value = ValueError THEN [valid |-> FALSE, value |-> PyNone]
             ELSE IF RLeq(value, Zero)
             THEN [valid |-> FALSE, value |-> PyNone]
             ELSE [valid |-> TRUE, value |-> value]

BudgetAlphabet == {"0", "1", "5", ".", ",", "-", " "}
BudgetSample == <<"1", ",", "0", "0", "0", ".", "5", "0", " ", "U", "A", "H">>
BudgetInputs == TextsUpTo(BudgetAlphabet, MaxLen) \cup {BudgetSample}

InitBudget ==
    /\ budget_input \in BudgetInputs
    /\ budget_result = NoResult
    /\ CalcIdle
    /\ UrlIdle
    /\ PagesIdle

\* budget_result = validate_budget(budget_input)
CallValidateBudget ==
    /\ budget_result = NoResult
    /\ budget_result' = ValidateBudget(budget_input)
    /\ UNCHANGED <<budget_input, calcVars, urlVars, pageVars>>

NextBudget == CallValidateBudget

SpecBudget == InitBudget /\ [][NextBudget]_vars

(***************************************************************************)
(* helpers.py: validate_url, with urllib.parse.urlparse as far as scheme   *)
(* and netloc go.  The model's texts hold lower-case letters only, so the  *)
(* lower-casing of the scheme changes nothing.                             *)
(***************************************************************************)
Letters == {"a", "b", "c", "d", "e", "f", "g", "h", "i", "j", "k", "l", "m",
            "n", "o", "p", "q", "r", "s", "t", "u", "v", "w", "x", "y", "z"}
SchemeChars == Letters \cup Digits \cup {"+", "-", "."}

\* the first index from `from` on whose character is in `chars`, else
\* Len(s) + 1
FirstOf(s, chars, from) ==
    LET hits == {i \in from..Len(s) : s[i] \in chars}
    IN  IF hits = {} THEN Len(s) + 1
        ELSE CHOOSE i \in hits : \A j \in hits : i <= j

\* urlparse(url): [scheme, netloc], or ValueError for a netloc with "["
\* and no "]" (or the reverse)
UrlParse(url) ==
    LET colon == FirstOf(url, {":"}, 1)
        hasScheme == /\ 1 < colon
                     /\ colon <= Len(url)
                     /\ url[1] \in Letters
                     /\ \A j \in 1..(colon - 1) : url[j] \in SchemeChars
        scheme == IF hasScheme THEN SubSeq(url, 1, colon - 1) ELSE <<>>
        rest == IF hasScheme THEN SubSeq(url, colon + 1, Len(url)) ELSE url
        hasNetloc == Len(rest) >= 2 /\ rest[1] = "/" /\ rest[2] = "/"
        delim == FirstOf(rest, {"/", "?", "#"}, 3)
        netloc == IF hasNetloc THEN SubSeq(rest, 3, delim - 1) ELSE <<>>
        opens == \E i \in 1..Len(netloc) : netloc[i] = "["
        closes == \E i \in 1..Len(netloc) : netloc[i] = "]"
    IN  IF opens # closes THEN [error |-> "ValueError"]
        ELSE [scheme |-> scheme, netloc |-> netloc]

Http == <<"h", "t", "t", "p", ":", "/", "/">>
Https == <<"h", "t", "t", "p", "s", ":", "/", "/">>

\* a mutant of WithScheme: the text is parsed as typed
WithSchemeNotAdded(url) == url

\* if not url.startswith(('http://', 'https://')): url = 'http://' + url
WithScheme(url) ==
    IF StartsWith(url, Http) \/ StartsWith(url, Https) THEN url
    ELSE Http \o url

ValidateUrl(url) ==
    IF url = <<>> THEN FALSE
    ELSE LET result == UrlParse(WithScheme(url))
         IN  IF "error" \in DOMAIN result THEN FALSE
             ELSE result.scheme # <<>> /\ result.netloc # <<>>

UrlAlphabet == {"a", ".", "/", ":", " ", "?", "#", "["}
UrlPrefixes == {<<>>, Http, Https}
ExampleCom == <<"e", "x", "a", "m", "p", "l", "e", ".", "c", "o", "m">>
NotAUrl == <<"n", "o", "t", " ", "a", " ", "u", "r", "l">>
UrlInputs ==
    {pre \o body : pre \in UrlPrefixes, body \in TextsUpTo(UrlAlphabet, MaxLen)}
    \cup {ExampleCom, NotAUrl}

InitUrl ==
    /\ url_input \in UrlInputs
    /\ url_result = NoResult
    /\ CalcIdle
    /\ BudgetIdle
    /\ PagesIdle

\* url_result = validate_url(url_input)
CallValidateUrl ==
    /\ url_result = NoResult
    /\ url_result' = [valid |-> ValidateUrl(url_input)]
    /\ UNCHANGED <<url_input, calcVars, budgetVars, pageVars>>

NextUrl == CallValidateUrl

SpecUrl == InitUrl /\ [][NextUrl]_vars

(***************************************************************************)
(* Claims about the validators.                                            *)
(***************************************************************************)
\* the positions of raw that hold a digit, and those that hold a point
DigitPositions(raw) == {i \in 1..Len(raw) : raw[i] \in Digits}
PointPositions(raw) == {i \in 1..Len(raw) : raw[i] = "."}

\* the number the digits and the point of raw denote: each digit weighs 10
\* to the number of digits to its right, over 10 to the number of digits
\* right of the point
RECURSIVE WeightedDigits(_, _)
WeightedDigits(raw, positions) ==
    IF positions = {} THEN 0
    ELSE LET i == CHOOSE x \in positions : TRUE
             right == {j \in DigitPositions(raw) : j > i}
         IN  DigitValue(raw[i]) * Pow10(Cardinality(right))
             + WeightedDigits(raw, positions \ {i})

DenotedNumber(raw) ==
    LET decimals == {j \in DigitPositions(raw) :
                        \E q \in PointPositions(raw) : j > q}
    IN  Norm(WeightedDigits(raw, DigitPositions(raw)),
             Pow10(Cardinality(decimals)))

\* what is left of raw without the characters that are neither digit nor
\* point parses as a number greater than 0
DenotesPositive(raw) ==
    /\ Cardinality(PointPositions(raw)) <= 1
    /\ DigitPositions(raw) # {}
    /\ \E i \in DigitPositions(raw) : raw[i] # "0"

\* C7: validate_budget(raw) is (valid, v) exactly when raw is non-empty and
\* what is left of it after deleting every character that is neither a
\* digit nor a point parses as a number v > 0; in every other case it is
\* invalid with no value.  "1,000.50 UAH" is valid with value 1000.50 and
\* the empty text is invalid.
C7_ValidateBudget ==
    budget_result # NoResult =>
        /\ budget_result.valid =
               (budget_input # <<>> /\ DenotesPositive(budget_input))
        /\ budget_result.valid =>
               budget_result.value = DenotedNumber(budget_input)
        /\ ~budget_result.valid => budget_result.value = PyNone
        /\ budget_input = BudgetSample =>
               budget_result = [valid |-> TRUE, value |-> <<2001, 2>>]
        /\ budget_input = <<>> =>
               budget_result = [valid |-> FALSE, value |-> PyNone]

C7_Witness ==
    /\ budget_input = BudgetSample
    /\ budget_result = [valid |-> TRUE, value |-> <<2001, 2>>]

\* raw is "-" followed by a positive number
DenotesNegative(raw) ==
    /\ Len(raw) >= 2
    /\ raw[1] = "-"
    /\ \A i \in 2..Len(raw) : raw[i] \in Digits \cup {"."}
    /\ DenotesPositive(raw)

\* C8 as stated: validate_budget reports invalid for "-" followed by a
\* positive number, such as "-5".
C8_NegativeBudgetInvalid ==
    (budget_result # NoResult /\ DenotesNegative(budget_input)) =>
        ~budget_result.valid

\* the text between the "//" of the scheme prefix and the next "/", "?"
\* or "#", for a text that starts with http:// or https://
Authority(u) ==
    LET start == IF StartsWith(u, Https) THEN Len(Https) + 1
                 ELSE Len(Http) + 1
        stops == {i \in start..Len(u) : u[i] \in {"/", "?", "#"}}
        end == IF stops = {} THEN Len(u)
               ELSE (CHOOSE i \in stops : \A j \in stops : i <= j) - 1
    IN  SubSeq(u, start, end)

Has(s, c) == \E i \in 1..Len(s) : s[i] = c

C10_NotUrlShapedInvalid ==
    (/\ url_result # NoResult
     /\ \A i \in 1..Len(url_input) : url_input[i] \in Letters \cup {" "}
     /\ \E i \in 2..(Len(url_input) - 1) :
            /\ url_input[i] = " "
            /\ url_input[i - 1] \in Letters
            /\ url_input[i + 1] \in Letters)
    => ~url_result.valid


(***************************************************************************)
(* app.py: the calculator page (SpecApp).  Streamlit runs the whole script *)
(* again for every widget event, so a step is one event followed by the    *)
(* run it starts.  The widget values live in budget_input, url_input,      *)
(* business_type and params; the run leaves its results in budget_result,  *)
(* url_result, last_args, analysis, messages, screen and save_request.     *)
(***************************************************************************)
\* st.button: True only in the run its own click started
Button(label, trig) == trig = label

\* the sliders' default values
SliderDefaults(bt) ==
    [avg_cpc |-> Mean(CPC_RANGES[bt].min, CPC_RANGES[bt].max),
     ctr |-> Mean(CTR_RANGES[bt].min, CTR_RANGES[bt].max),
     conversion_rate |-> Mean(CONVERSION_RATE_RANGES[bt].min,
                              CONVERSION_RATE_RANGES[bt].max),
     avg_order_value |-> Mean(AVG_ORDER_VALUE_RANGES[bt].min,
                              AVG_ORDER_VALUE_RANGES[bt].max)]

\* the slider positions a user is let to choose: the ends and the default
SliderChoices(bt) ==
    {SliderDefaults(bt)} \cup
    {[avg_cpc |-> a, ctr |-> c, conversion_rate |-> v, avg_order_value |-> o] :
        a \in {CPC_RANGES[bt].min, CPC_RANGES[bt].max},
        c \in {CTR_RANGES[bt].min, CTR_RANGES[bt].max},
        v \in {CONVERSION_RATE_RANGES[bt].min, CONVERSION_RATE_RANGES[bt].max},
        o \in {AVG_ORDER_VALUE_RANGES[bt].min, AVG_ORDER_VALUE_RANGES[bt].max}}

AppBudgetTexts ==
    {<<>>, <<"0">>, <<"5">>, <<"-", "5">>, <<"a">>, <<"1", ".", "5">>,
     BudgetSample}

AppUrls == {<<>>, <<"/">>, ExampleCom, NotAUrl, Https \o ExampleCom}

BudgetError == "Please enter a valid budget amount in UAH."
UrlError == "Please enter a valid website URL."
Analyzing == "Analyzing campaign"

\* the dict the Save handler builds
AnalysisData(url, value, bt, ap, cases, notes, is_saved) ==
    [website_url |-> url,
     budget |-> value,
     business_type |-> bt,
     advanced_params |-> ap,
     base_case |-> cases.base,
     pessimistic_case |-> cases.pessimistic,
     optimistic_case |-> cases.optimistic,
     notes |-> notes,
     is_saved |-> is_saved]

InputsValidIgnoresUrl(valid_budget, valid_url) == valid_budget

\* the condition under which the script goes on to calculate
InputsValid(valid_budget, valid_url) == valid_budget /\ valid_url

\* one run of the script over the widget values of the next state
RunScript(trig) ==
    /\ trigger' = trig
    /\ IF Button("Calculate", trig)
       THEN /\ budget_result' = ValidateBudget(budget_input')
            /\ url_result' = [valid |-> ValidateUrl(url_input')]
            /\ IF InputsValid(budget_result'.valid, url_result'.valid)
               THEN /\ messages' = {Analyzing}
                    /\ calc_calls' = 1
                    /\ last_args' = [budget |-> budget_result'.value,
                                     business_type |-> business_type',
                                     params |-> params']
                    /\ \E r \in {GenerateDetailedAnalysis(
                                    budget_result'.value, business_type',
                                    params')} :
                          /\ analysis' = r.ret
                          \* the notes area and the checkbox are created by
                          \* this run and hold their defaults
                          /\ save_request' =
                                IF Button("Save Analysis", trig)
                                THEN AnalysisData(url_input',
                                                  budget_result'.value,
                                                  business_type', r.params,
                                                  r.ret, <<>>, FALSE)
                                ELSE NoResult
                    /\ screen' = "results"
               ELSE /\ messages' =
                          (IF budget_result'.valid THEN {}
                           ELSE {BudgetError}) \cup
                          (IF url_result'.valid THEN {} ELSE {UrlError})
                    /\ calc_calls' = 0
                    /\ last_args' = NoArgs
                    /\ analysis' = NoResult
                    /\ screen' = "errors"
                    /\ save_request' = NoResult
       ELSE /\ budget_result' = NoResult
            /\ url_result' = NoResult
            /\ messages' = {}
            /\ calc_calls' = 0
            /\ last_args' = NoArgs
            /\ analysis' = NoResult
            /\ screen' = "welcome"
            /\ save_request' = NoResult
    /\ UNCHANGED <<budget, metrics, first_args, first_analysis, ncalls,
                   others, storeVars, saveVars, listVars, manageVars>>

\* the page is opened: the first run, over the widgets' defaults
InitApp ==
    /\ budget_input = <<>>
    /\ url_input = <<>>
    /\ business_type = "ecommerce"
    /\ params = SliderDefaults("ecommerce")
    /\ budget_result = NoResult
    /\ url_result = NoResult
    /\ budget = Zero
    /\ metrics = NoResult
    /\ analysis = NoResult
    /\ first_args = NoArgs
    /\ last_args = NoArgs
    /\ first_analysis = NoResult
    /\ ncalls = 0
    /\ others = 0
    /\ trigger = "none"
    /\ screen = "welcome"
    /\ messages = {}
    /\ calc_calls = 0
    /\ save_request = NoResult
    /\ StoreIdle
    /\ SaveIdle
    /\ ListIdle
    /\ ManageIdle

EditBudget ==
    /\ \E t \in AppBudgetTexts \ {budget_input} : budget_input' = t
    /\ UNCHANGED <<url_input, business_type, params>>
    /\ RunScript("Google Ads Budget (UAH)")

EditUrl ==
    /\ \E t \in AppUrls \ {url_input} : url_input' = t
    /\ UNCHANGED <<budget_input, business_type, params>>
    /\ RunScript("Website URL")

\* the sliders of the other category are other widgets: they start at
\* their defaults
SelectBusinessType ==
    /\ \E bt \in BusinessTypes \ {business_type} :
          /\ business_type' = bt
          /\ params' = SliderDefaults(bt)
    /\ UNCHANGED <<budget_input, url_input>>
    /\ RunScript("Business Type")

MoveSliders ==
    /\ \E p \in SliderChoices(business_type) \ {params} : params' = p
    /\ UNCHANGED <<budget_input, url_input, business_type>>
    /\ RunScript("Advanced Parameters")

ClickCalculate ==
    /\ UNCHANGED <<budget_input, url_input, business_type, params>>
    /\ RunScript("Calculate")

\* the notes area, the checkbox and the Save button exist only on a page
\* that shows results
EditNotes ==
    /\ screen = "results"
    /\ UNCHANGED <<budget_input, url_input, business_type, params>>
    /\ RunScript("Notes (optional)")

ClickSaveAnalysis ==
    /\ screen = "results"
    /\ UNCHANGED <<budget_input, url_input, business_type, params>>
    /\ RunScript("Save Analysis")

NextApp ==
    \/ EditBudget
    \/ EditUrl
    \/ SelectBusinessType
    \/ MoveSliders
    \/ ClickCalculate
    \/ EditNotes
    \/ ClickSaveAnalysis

SpecApp == InitApp /\ [][NextApp]_vars

(***************************************************************************)
(* Claims about the calculator page.                                       *)
(***************************************************************************)
\* C11: generate_detailed_analysis is called, results are shown and the
\* Save handler is entered only in a run in which validate_budget and
\* validate_url both succeeded, and then with a budget above zero; a run of
\* Calculate in which either failed reports an error and calculates nothing.
C11_CalculationOnlyAfterValidation ==
    /\ (calc_calls > 0 \/ analysis # NoResult \/ screen = "results"
            \/ save_request # NoResult)
          => /\ budget_result = ValidateBudget(budget_input)
             /\ budget_result.valid
             /\ url_result = [valid |-> TRUE]
             /\ ValidateUrl(url_input)
             /\ last_args.budget = budget_result.value
             /\ RGt(last_args.budget, Zero)
    /\ (trigger = "Calculate"
            /\ ~(ValidateBudget(budget_input).valid /\ ValidateUrl(url_input)))
          => /\ calc_calls = 0
             /\ analysis = NoResult
             /\ save_request = NoResult
             /\ screen = "errors"
             /\ messages # {}
             /\ (BudgetError \in messages
                    <=> ~ValidateBudget(budget_input).valid)
             /\ (UrlError \in messages <=> ~ValidateUrl(url_input))

\* Calculate was clicked with a valid budget and a text that is no URL
C11_Witness ==
    /\ trigger = "Calculate"
    /\ budget_input = BudgetSample
    /\ url_input = <<"/">>
    /\ messages = {UrlError}
    /\ calc_calls = 0

\* C20: the run started by a click on "Save Analysis", on a page that shows
\* the results of a valid calculation, hands the computed base, pessimistic
\* and optimistic records to save_analysis.
C20_SaveClickReachesSaveAnalysis ==
    trigger = "Save Analysis"
        => /\ save_request # NoResult
           /\ LET r == GenerateDetailedAnalysis(
                           ValidateBudget(budget_input).value,
                           business_type, params).ret
              IN  /\ save_request.base_case = r.base
                  /\ save_request.pessimistic_case = r.pessimistic
                  /\ save_request.optimistic_case = r.optimistic


(***************************************************************************)
(* database.py: the analysis_results table and the five operations.        *)
(* A Python dict is a function on its keys; JSON text is the sequence of   *)
(* its tokens <<kind, name, number>>.                                      *)
(***************************************************************************)
\* None where a text is expected
NoneText == <<"None">>

\* dict.get(key, default)
DictGet(d, key, default) == IF key \in DOMAIN d THEN d[key] ELSE default

EmptyPyDict == [k \in {} |-> Zero]

\* the keys of a metrics dict, in insertion order
MetricKeys ==
    <<"budget", "avg_cpc", "clicks", "impressions", "ctr", "conversion_rate",
      "conversions", "cost_per_conversion", "avg_order_value", "revenue",
      "roi", "roas", "daily_budget", "monthly_revenue">>

Open == <<"{", "", Zero>>
Close == <<"}", "", Zero>>
KeyToken(k) == <<"key", k, Zero>>
NumberToken(v) == <<"number", "", v>>
JSONDecodeError == [exception |-> "JSONDecodeError"]

RECURSIVE Members(_, _)
Members(d, keys) ==
    IF keys = <<>> THEN <<>>
    ELSE <<KeyToken(Head(keys)), NumberToken(d[Head(keys)])>>
             \o Members(d, Tail(keys))

\* json.dumps of a dict of numbers
JsonDumps(d) ==
    <<Open>> \o Members(d, SelectSeq(MetricKeys, LAMBDA k : k \in DOMAIN d))
             \o <<Close>>

\* json.loads
JsonLoads(text) ==
    LET n == Len(text)
        inner == 2..(n - 1)
        keyAt == {i \in inner : i % 2 = 0}
        wellFormed ==
            /\ n >= 2
            /\ n % 2 = 0
            /\ text[1] = Open
            /\ text[n] = Close
            /\ \A i \in inner :
                  text[i][1] = (IF i % 2 = 0 THEN "key" ELSE "number")
    IN  IF ~wellFormed THEN JSONDecodeError
        ELSE [k \in {text[i][2] : i \in keyAt} |->
                 LET last == CHOOSE i \in keyAt :
                                 /\ text[i][2] = k
                                 /\ \A j \in keyAt : text[j][2] = k => j <= i
                 IN  text[last + 1][3]]

\* saved_analyses.py: the stored text read back, {} when it does not parse
LoadScenario(text) ==
    LET d == JsonLoads(text)
    IN  IF d = JSONDecodeError THEN EmptyPyDict ELSE d

\* a mutant of NewRow: the two scenario columns exchanged
NewRowScenariosSwapped(analysis_data, id, now) ==
    LET advanced_params == DictGet(analysis_data, "advanced_params", EmptyPyDict)
        base_case == DictGet(analysis_data, "base_case", EmptyPyDict)
    IN  [id |-> id,
         created_at |-> now,
         website_url |-> DictGet(analysis_data, "website_url", PyNone),
         budget |-> DictGet(analysis_data, "budget", PyNone),
         business_type |-> DictGet(analysis_data, "business_type", PyNone),
         avg_cpc |-> DictGet(advanced_params, "avg_cpc", PyNone),
         ctr |-> DictGet(advanced_params, "ctr", PyNone),
         conversion_rate |-> DictGet(advanced_params, "conversion_rate", PyNone),
         avg_order_value |-> DictGet(advanced_params, "avg_order_value", PyNone),
         clicks |-> DictGet(base_case, "clicks", PyNone),
         impressions |-> DictGet(base_case, "impressions", PyNone),
         conversions |-> DictGet(base_case, "conversions", PyNone),
         cost_per_conversion |-> DictGet(base_case, "cost_per_conversion", PyNone),
         revenue |-> DictGet(base_case, "revenue", PyNone),
         roi |-> DictGet(base_case, "roi", PyNone),
         roas |-> DictGet(base_case, "roas", PyNone),
         pessimistic_scenario |->
             JsonDumps(DictGet(analysis_data, "optimistic_case", EmptyPyDict)),
         optimistic_scenario |->
             JsonDumps(DictGet(analysis_data, "pessimistic_case", EmptyPyDict)),
         notes |-> DictGet(analysis_data, "notes", NoneText),
         is_saved |-> DictGet(analysis_data, "is_saved", FALSE)]

\* the row save_analysis builds; id and created_at are filled at INSERT
NewRow(analysis_data, id, now) ==
    LET advanced_params == DictGet(analysis_data, "advanced_params", EmptyPyDict)
        base_case == DictGet(analysis_data, "base_case", EmptyPyDict)
    IN  [id |-> id,
         created_at |-> now,
         website_url |-> DictGet(analysis_data, "website_url", PyNone),
         budget |-> DictGet(analysis_data, "budget", PyNone),
         business_type |-> DictGet(analysis_data, "business_type", PyNone),
         avg_cpc |-> DictGet(advanced_params, "avg_cpc", PyNone),
         ctr |-> DictGet(advanced_params, "ctr", PyNone),
         conversion_rate |-> DictGet(advanced_params, "conversion_rate", PyNone),
         avg_order_value |-> DictGet(advanced_params, "avg_order_value", PyNone),
         clicks |-> DictGet(base_case, "clicks", PyNone),
         impressions |-> DictGet(base_case, "impressions", PyNone),
         conversions |-> DictGet(base_case, "conversions", PyNone),
         cost_per_conversion |-> DictGet(base_case, "cost_per_conversion", PyNone),
         revenue |-> DictGet(base_case, "revenue", PyNone),
         roi |-> DictGet(base_case, "roi", PyNone),
         roas |-> DictGet(base_case, "roas", PyNone),
         pessimistic_scenario |->
             JsonDumps(DictGet(analysis_data, "pessimistic_case", EmptyPyDict)),
         optimistic_scenario |->
             JsonDumps(DictGet(analysis_data, "optimistic_case", EmptyPyDict)),
         notes |-> DictGet(analysis_data, "notes", NoneText),
         is_saved |-> DictGet(analysis_data, "is_saved", FALSE)]


NoRow == [none |-> TRUE]
OperationalError == [exception |-> "OperationalError"]
ObjectDeletedError == [exception |-> "ObjectDeletedError"]
StaleDataError == [exception |-> "StaleDataError"]

\* what a call handed back to its caller
Returned(name, args, value) ==
    [name |-> name, args |-> args, raised |-> FALSE, ret |-> value]
RaisedIn(name, args, e) ==
    [name |-> name, args |-> args, raised |-> TRUE, ret |-> e]

FirstOrAny(tbl, analysis_id) ==
    IF \E r \in tbl : r.id = analysis_id
    THEN CHOOSE r \in tbl : r.id = analysis_id
    ELSE IF tbl # {} THEN CHOOSE r \in tbl : TRUE
    ELSE NoRow

\* query(AnalysisResult).filter(id == analysis_id).first()
First(tbl, analysis_id) ==
    IF \E r \in tbl : r.id = analysis_id
    THEN CHOOSE r \in tbl : r.id = analysis_id
    ELSE NoRow

\* ORDER BY created_at DESC: every order the database may answer with,
\* rows of equal created_at in any order
RECURSIVE OrderByCreatedAtDesc(_)
OrderByCreatedAtDesc(tbl) ==
    IF tbl = {} THEN {<<>>}
    ELSE LET newest == {r \in tbl :
                           \A q \in tbl : q.created_at <= r.created_at}
         IN  UNION {{<<r>> \o rest : rest \in OrderByCreatedAtDesc(tbl \ {r})} :
                       r \in newest}

LimitFromEnd(rows, n) ==
    SubSeq(rows, (IF n < Len(rows) THEN Len(rows) - n ELSE 0) + 1, Len(rows))

\* LIMIT n
Limit(rows, n) == SubSeq(rows, 1, IF n < Len(rows) THEN n ELSE Len(rows))

DeleteRowsUpTo(tbl, analysis_id) == {r \in tbl : r.id > analysis_id}

\* DELETE FROM analysis_results WHERE id = ...
DeleteRow(tbl, analysis_id) == {r \in tbl : r.id # analysis_id}

ApplyUpdateRewritesUrl(current, loaded, notes, is_saved) ==
    [current EXCEPT
        !.website_url = notes,
        !.notes = IF notes # loaded.notes THEN notes ELSE @,
        !.is_saved = IF ~is_saved.none /\ is_saved.value # loaded.is_saved
                     THEN is_saved.value ELSE @]

\* the columns the unit of work writes are those whose value differs from
\* the loaded one; is_saved is assigned only when the argument is not None
ApplyUpdate(current, loaded, notes, is_saved) ==
    [current EXCEPT
        !.notes = IF notes # loaded.notes THEN notes ELSE @,
        !.is_saved = IF ~is_saved.none /\ is_saved.value # loaded.is_saved
                     THEN is_saved.value ELSE @]

Dirty(loaded, notes, is_saved) ==
    \/ notes # loaded.notes
    \/ ~is_saved.none /\ is_saved.value # loaded.is_saved

SequenceRolledBack(seq, taken) == taken

\* a value taken from the id sequence is not given back by a rollback
SequenceAfterRollback(seq, taken) == seq

(***************************************************************************)
(* The callers' inputs.                                                    *)
(***************************************************************************)
FullData(url, b, bt, p, notes, is_saved) ==
    LET r == GenerateDetailedAnalysis(b, bt, p)
    IN  AnalysisData(url, b, bt, r.params, r.ret, notes, is_saved)

\* what the Save handler of the calculator page would pass
AnalysisDataChoices ==
    {FullData(ExampleCom, R(5), "ecommerce", SliderDefaults("ecommerce"),
              <<"x">>, FALSE)}

\* two rows are created at the same instant or at different ones
Instants == {0, 1}
Ids == 1..MaxSaves
PageLimit == 50
Limits == {0, 1, PageLimit}
NotesChoices == {<<"y">>}
IsSavedNone == [none |-> TRUE, value |-> FALSE]
IsSavedChoices == {IsSavedNone, [none |-> FALSE, value |-> TRUE]}
CallNames ==
    {"save_analysis", "get_all_analyses", "get_analysis_by_id",
     "delete_analysis", "update_analysis_notes"}

(***************************************************************************)
(* SpecStore: callers in concurrent sessions.  A step is one round trip to *)
(* the database: what lies between two round trips of one session may be   *)
(* interleaved with the other session's.                                   *)
(***************************************************************************)
\* session = session_factory()
Opened(n) == n + 1

\* a mutant of Closed: session.close() as the last statement of the try
\* block, which an exception skips
ClosedUnlessRaised(n, exit) == IF exit = "raised" THEN n ELSE n - 1

\* finally: session.close(), whichever way the function is left
Closed(n, exit) == n - 1

InitStore ==
    /\ StoreIdle
    /\ CalcIdle
    /\ BudgetIdle
    /\ UrlIdle
    /\ AppIdle
    /\ SaveIdle
    /\ ListIdle
    /\ ManageIdle

StoreFrame == UNCHANGED <<calcVars, budgetVars, urlVars, appVars, saveVars,
                          listVars, manageVars>>

\* save_analysis up to the INSERT that commit() flushes: the row takes the
\* next id of the sequence and the time of the client
SaveAnalysisInsert(s) ==
    /\ sess[s] = IdleSession
    /\ next_id <= MaxSaves
    /\ \E analysis_data \in AnalysisDataChoices :
          sess' = [sess EXCEPT ![s] =
                      [pc |-> "inserted", call |-> "save_analysis",
                       args |-> analysis_data,
                       row |-> NewRow(analysis_data, next_id, clock)]]
    /\ next_id' = next_id + 1
    /\ op' = NoOp
    /\ open_sessions' = Opened(open_sessions)
    /\ UNCHANGED <<table, clock, returned_ids>>
    /\ StoreFrame

\* the COMMIT of session.commit()
SaveAnalysisCommit(s) ==
    /\ sess[s].pc = "inserted"
    /\ table' = table \cup {sess[s].row}
    /\ sess' = [sess EXCEPT ![s].pc = "committed"]
    /\ op' = NoOp
    /\ UNCHANGED <<next_id, clock, returned_ids, open_sessions>>
    /\ StoreFrame

\* analysis_id = analysis.id reads the row again, the commit having expired
\* the object; return analysis_id
SaveAnalysisReturn(s) ==
    /\ sess[s].pc = "committed"
    /\ LET found == First(table, sess[s].row.id)
       IN  IF found = NoRow
           THEN /\ op' = RaisedIn("save_analysis", sess[s].args,
                                  ObjectDeletedError)
                /\ UNCHANGED returned_ids
                /\ open_sessions' = Closed(open_sessions, "raised")
           ELSE /\ op' = Returned("save_analysis", sess[s].args,
                                  found.id)
                /\ returned_ids' = returned_ids \cup {found.id}
                /\ open_sessions' = Closed(open_sessions, "returned")
    /\ sess' = [sess EXCEPT ![s] = IdleSession]
    /\ UNCHANGED <<table, next_id, clock>>
    /\ StoreFrame

GetAllAnalyses(s) ==
    /\ sess[s] = IdleSession
    /\ \E limit \in Limits : \E rows \in OrderByCreatedAtDesc(table) :
          op' = Returned("get_all_analyses", limit, Limit(rows, limit))
    /\ open_sessions' = Closed(Opened(open_sessions), "returned")
    /\ UNCHANGED <<table, next_id, clock, sess, returned_ids>>
    /\ StoreFrame

GetAnalysisById(s) ==
    /\ sess[s] = IdleSession
    /\ \E analysis_id \in Ids :
          op' = Returned("get_analysis_by_id", analysis_id,
                         First(table, analysis_id))
    /\ open_sessions' = Closed(Opened(open_sessions), "returned")
    /\ UNCHANGED <<table, next_id, clock, sess, returned_ids>>
    /\ StoreFrame

\* delete_analysis: the query, and return False when nothing is found
DeleteAnalysisSelect(s) ==
    /\ sess[s] = IdleSession
    /\ \E analysis_id \in Ids :
          LET found == First(table, analysis_id)
          IN  IF found = NoRow
              THEN /\ op' = Returned("delete_analysis", analysis_id, FALSE)
                   /\ UNCHANGED sess
                   /\ open_sessions' =
                         Closed(Opened(open_sessions), "returned")
              ELSE /\ op' = NoOp
                   /\ open_sessions' = Opened(open_sessions)
                   /\ sess' = [sess EXCEPT ![s] =
                                  [pc |-> "loaded", call |-> "delete_analysis",
                                   args |-> analysis_id, row |-> found]]
    /\ UNCHANGED <<table, next_id, clock, returned_ids>>
    /\ StoreFrame

\* session.delete(analysis); session.commit(); return True
DeleteAnalysisCommit(s) ==
    /\ sess[s].pc = "loaded"
    /\ sess[s].call = "delete_analysis"
    /\ table' = DeleteRow(table, sess[s].row.id)
    /\ op' = Returned("delete_analysis", sess[s].args, TRUE)
    /\ sess' = [sess EXCEPT ![s] = IdleSession]
    /\ open_sessions' = Closed(open_sessions, "returned")
    /\ UNCHANGED <<next_id, clock, returned_ids>>
    /\ StoreFrame

\* update_analysis_notes: the query, and return False when nothing is found
UpdateAnalysisNotesSelect(s) ==
    /\ sess[s] = IdleSession
    /\ \E analysis_id \in Ids, notes \in NotesChoices,
          is_saved \in IsSavedChoices :
          LET found == First(table, analysis_id)
              args == [analysis_id |-> analysis_id, notes |-> notes,
                       is_saved |-> is_saved]
          IN  IF found = NoRow
              THEN /\ op' = Returned("update_analysis_notes", args, FALSE)
                   /\ UNCHANGED sess
                   /\ open_sessions' =
                         Closed(Opened(open_sessions), "returned")
              ELSE /\ op' = NoOp
                   /\ open_sessions' = Opened(open_sessions)
                   /\ sess' = [sess EXCEPT ![s] =
                                  [pc |-> "loaded",
                                   call |-> "update_analysis_notes",
                                   args |-> args, row |-> found]]
    /\ UNCHANGED <<table, next_id, clock, returned_ids>>
    /\ StoreFrame

\* the assignments, session.commit() and return True; an UPDATE that finds
\* its row gone raises
UpdateAnalysisNotesCommit(s) ==
    /\ sess[s].pc = "loaded"
    /\ sess[s].call = "update_analysis_notes"
    /\ LET args == sess[s].args
           loaded == sess[s].row
           current == First(table, loaded.id)
       IN  IF ~Dirty(loaded, args.notes, args.is_saved)
           THEN /\ op' = Returned("update_analysis_notes", args, TRUE)
                /\ UNCHANGED table
           ELSE IF current = NoRow
           THEN /\ op' = RaisedIn("update_analysis_notes", args,
                                  StaleDataError)
                /\ UNCHANGED table
           ELSE /\ op' = Returned("update_analysis_notes", args, TRUE)
                /\ table' = (table \ {current}) \cup
                               {ApplyUpdate(current, loaded, args.notes,
                                            args.is_saved)}
    /\ open_sessions' = Closed(open_sessions,
                               IF op'.raised THEN "raised" ELSE "returned")
    /\ sess' = [sess EXCEPT ![s] = IdleSession]
    /\ UNCHANGED <<next_id, clock, returned_ids>>
    /\ StoreFrame

\* the connection fails in a round trip: except: session.rollback(); raise.
\* What was committed before stays.
TransportFailure(s) ==
    /\ IF sess[s] = IdleSession
       THEN /\ \E name \in CallNames :
                  op' = RaisedIn(name, NoArgs, OperationalError)
            /\ UNCHANGED next_id
            /\ open_sessions' = Closed(Opened(open_sessions), "raised")
       ELSE /\ op' = RaisedIn(sess[s].call, sess[s].args, OperationalError)
            /\ next_id' = IF sess[s].pc = "inserted"
                          THEN SequenceAfterRollback(next_id, sess[s].row.id)
                          ELSE next_id
            /\ open_sessions' = Closed(open_sessions, "raised")
    /\ sess' = [sess EXCEPT ![s] = IdleSession]
    /\ UNCHANGED <<table, clock, returned_ids>>
    /\ StoreFrame

\* time passes; instants after the last row has been created are not
\* told apart
Tick ==
    /\ next_id <= MaxSaves
    /\ clock + 1 \in Instants
    /\ clock' = clock + 1
    /\ op' = NoOp
    /\ UNCHANGED <<table, next_id, sess, returned_ids, open_sessions>>
    /\ StoreFrame

\* one caller at a time
NextStore ==
    \/ SaveAnalysisInsert("s1")
    \/ SaveAnalysisCommit("s1")
    \/ SaveAnalysisReturn("s1")
    \/ GetAllAnalyses("s1")
    \/ GetAnalysisById("s1")
    \/ DeleteAnalysisSelect("s1")
    \/ DeleteAnalysisCommit("s1")
    \/ UpdateAnalysisNotesSelect("s1")
    \/ UpdateAnalysisNotesCommit("s1")
    \/ TransportFailure("s1")
    \/ Tick

SpecStore == InitStore /\ [][NextStore]_vars

\* callers that save and delete in concurrent sessions
NextSessions ==
    \/ \E s \in Sessions : SaveAnalysisInsert(s)
    \/ \E s \in Sessions : SaveAnalysisCommit(s)
    \/ \E s \in Sessions : SaveAnalysisReturn(s)
    \/ \E s \in Sessions : DeleteAnalysisSelect(s)
    \/ \E s \in Sessions : DeleteAnalysisCommit(s)
    \/ \E s \in Sessions : TransportFailure(s)
    \/ Tick

SpecSessions == InitStore /\ [][NextSessions]_vars

(***************************************************************************)
(* Claims about the store.                                                 *)
(***************************************************************************)
HasId(tbl, id) == \E r \in tbl : r.id = id
RowOf(tbl, id) == CHOOSE r \in tbl : r.id = id

\* the record read back carries what was saved
RoundTrip(got, analysis_data) ==
    /\ got.website_url = analysis_data.website_url
    /\ got.budget = analysis_data.budget
    /\ got.business_type = analysis_data.business_type
    /\ \A k \in Keys : got[k] = analysis_data.advanced_params[k]
    /\ \A k \in {"clicks", "impressions", "conversions", "cost_per_conversion",
                 "revenue", "roi", "roas"} :
          got[k] = analysis_data.base_case[k]
    /\ got.notes = analysis_data.notes
    /\ got.is_saved = analysis_data.is_saved
    /\ LoadScenario(got.pessimistic_scenario) = analysis_data.pessimistic_case
    /\ LoadScenario(got.optimistic_scenario) = analysis_data.optimistic_case

\* C12: when save_analysis(data) has returned id, get_analysis_by_id(id)
\* finds a record whose url, budget, business type, four parameters, seven
\* base metrics, notes and favorite flag are those of data and whose two
\* scenario texts decode to data's pessimistic and optimistic records.
C12_SaveThenGetRoundTrip ==
    (op.name = "save_analysis" /\ ~op.raised)
        => /\ HasId(table, op.ret)
           /\ RoundTrip(RowOf(table, op.ret), op.args)

C12_Witness ==
    /\ op.name = "save_analysis"
    /\ ~op.raised
    /\ op.ret = 2
    /\ op.args.pessimistic_case # op.args.optimistic_case
    /\ RoundTrip(RowOf(table, op.ret), op.args)

UpdateCompletes(s) ==
    /\ sess[s].pc = "loaded"
    /\ sess[s].call = "update_analysis_notes"
    /\ sess'[s] = IdleSession
    /\ ~op'.raised

\* C13: an update_analysis_notes that finds its record changes the notes
\* and, when is_saved is given, the favorite flag of that record and
\* nothing else: every other column of the record, every other record and
\* the id sequence stay as they were, whatever updates came before.
C13_UpdateChangesOnlyNotesAndFavorite ==
    [][\A s \in Sessions : UpdateCompletes(s) =>
          LET args == sess[s].args
              id == args.analysis_id
          IN  /\ op'.ret = TRUE
              /\ HasId(table, id)
              /\ HasId(table', id)
              /\ RowOf(table', id) =
                    [RowOf(table, id) EXCEPT
                        !.notes = args.notes,
                        !.is_saved = IF args.is_saved.none THEN @
                                     ELSE args.is_saved.value]
              /\ {r \in table' : r.id # id} = {r \in table : r.id # id}
              /\ Cardinality(table') = Cardinality(table)
              /\ next_id' = next_id]_vars

\* a record was given new notes and the favorite flag, next to another one
C13_Witness ==
    /\ op.name = "update_analysis_notes"
    /\ ~op.raised
    /\ op.ret = TRUE
    /\ \E r, q \in table :
          /\ r.id = op.args.analysis_id
          /\ r.notes = <<"y">>
          /\ r.is_saved
          /\ q.id # r.id
          /\ q.notes = <<"x">>
          /\ ~q.is_saved

IdOf(o) == IF o.name = "delete_analysis" THEN o.args ELSE o.args.analysis_id

\* C14: update_analysis_notes and delete_analysis called with an id that no
\* record has return False when the store answers, and leave the store as
\* it was; a call that the transport fails leaves it as it was too.
C14_AbsentIdReturnsFalse ==
    [][/\ (op'.name \in {"update_analysis_notes", "delete_analysis"}
              /\ ~op'.raised /\ ~HasId(table, IdOf(op')))
          => /\ op'.ret = FALSE
             /\ table' = table
             /\ next_id' = next_id
       /\ (op' # NoOp /\ op'.raised) => table' = table]_vars

\* a store that has a record was asked to update one it has not
C14_Witness ==
    /\ op.name = "update_analysis_notes"
    /\ ~op.raised
    /\ op.ret = FALSE
    /\ table # {}
    /\ ~HasId(table, op.args.analysis_id)

DeleteCompletes(s) ==
    /\ sess[s].pc = "loaded"
    /\ sess[s].call = "delete_analysis"
    /\ sess'[s] = IdleSession
    /\ ~op'.raised

Pending(id) == \E s \in Sessions : sess[s].pc = "inserted" /\ sess[s].row.id = id

\* C15: delete_analysis(id) on an existing record returns True and removes
\* that record and no other; from then on no record has that id, so
\* get_analysis_by_id(id) finds nothing and no list contains it.
C15_DeleteRemovesExactlyThatRecord ==
    [][/\ \A s \in Sessions : DeleteCompletes(s) =>
             LET id == sess[s].args
             IN  /\ op'.ret = TRUE
                 /\ HasId(table, id)
                 /\ table' = table \ {RowOf(table, id)}
                 /\ Cardinality(table') = Cardinality(table) - 1
                 /\ ~HasId(table', id)
                 /\ \A rows \in OrderByCreatedAtDesc(table') :
                       \A i \in 1..Len(rows) : rows[i].id # id
       /\ \A id \in Ids :
             (id < next_id /\ ~HasId(table, id) /\ ~Pending(id))
                => ~HasId(table', id)]_vars

\* the older of two records was deleted
C15_Witness ==
    /\ op.name = "delete_analysis"
    /\ ~op.raised
    /\ op.ret = TRUE
    /\ op.args = 1
    /\ Cardinality(table) = 1
    /\ HasId(table, 2)

\* C16: in every state of the store no two records have the same id, and no
\* record waiting for its commit has the id of another; save_analysis never
\* returns an id it has returned before, whichever sessions the calls run
\* in; a record in the store keeps the id it was created with.
C16_IdsDistinct ==
    /\ [](/\ \A r, q \in table : r.id = q.id => r = q
          /\ \A s \in Sessions : sess[s].pc = "inserted" =>
                /\ ~HasId(table, sess[s].row.id)
                /\ \A t \in Sessions \ {s} :
                      sess[t].pc \in {"inserted", "committed"}
                         => sess[t].row.id # sess[s].row.id)
    /\ [][/\ (op'.name = "save_analysis" /\ ~op'.raised)
                => op'.ret \notin returned_ids
          /\ \A r \in table' :
                \/ r \in table
                \/ \E s \in Sessions :
                      sess[s].pc = "inserted" /\ sess[s].row = r]_vars

\* two sessions have committed their rows and neither call has returned
C16_Witness ==
    /\ \A s \in Sessions : sess[s].pc = "committed"
    /\ Cardinality(table) = 2
    /\ Cardinality({r.id : r \in table}) = 2

\* C29 as stated: of two delete_analysis calls on the same existing id that
\* run concurrently at most one returns True: a call returns True only
\* when its commit removes the record, which an id, never given twice,
\* allows once.
C29_ConcurrentDeletesReportOnce ==
    [][\A s \in Sessions :
          (DeleteCompletes(s) /\ op'.ret = TRUE)
             => (HasId(table, sess[s].args) /\ ~HasId(table', sess[s].args))
      ]_vars

\* C17: get_all_analyses(limit) returns min(limit, n) records of the n in
\* the store, each once, newest first, and no record left out is newer than
\* one returned.
C17_ListNewestFirstUpToLimit ==
    (op.name = "get_all_analyses" /\ ~op.raised)
        => LET rows == op.ret
               limit == op.args
               n == Cardinality(table)
               returned == {rows[i] : i \in 1..Len(rows)}
           IN  /\ Len(rows) = IF limit < n THEN limit ELSE n
               /\ returned \subseteq table
               /\ Cardinality(returned) = Len(rows)
               /\ \A i, j \in 1..Len(rows) :
                     i < j => rows[i].created_at >= rows[j].created_at
               /\ \A r \in table \ returned : \A q \in returned :
                     r.created_at <= q.created_at

\* of two records created at different instants the list of one holds the
\* newer
C17_Witness ==
    /\ op.name = "get_all_analyses"
    /\ ~op.raised
    /\ op.args = 1
    /\ Len(op.ret) = 1
    /\ \E r \in table : r.created_at < op.ret[1].created_at

(***************************************************************************)
(* app.py: the handler of the "Save Analysis" button (SpecSave).  A step   *)
(* is one pass of its retry loop: the call of save_analysis and what the   *)
(* handler does with its outcome.  The call is taken whole here; it may    *)
(* return the id, raise before its commit, or raise after it.              *)
(***************************************************************************)
retry_attempts == 3
SaveSleep == 1

SavedMessage == "Analysis saved successfully!"
RetryWarning == "Database connection issue. Retrying"
DatabaseError == "Database error after 3 attempts"
TryLater == "Please try again later or check the database connection."

ShouldRetryAlways(a) == TRUE

\* the handler retries while this was not the last pass
ShouldRetry(a) == a < retry_attempts - 1

InitSave ==
    /\ SaveIdle
    /\ StoreIdle
    /\ CalcIdle
    /\ BudgetIdle
    /\ UrlIdle
    /\ AppIdle
    /\ ListIdle
    /\ ManageIdle

SaveFrame == UNCHANGED <<calcVars, budgetVars, urlVars, trigger, screen,
                         messages, calc_calls, listVars, manageVars, sess,
                         clock>>

\* the handler is entered with the analysis_data it has built
EnterSaveHandler ==
    /\ save_pc \in {"none", "done"}
    /\ next_id <= MaxSaves
    /\ save_request' \in AnalysisDataChoices
    /\ attempt' = 0
    /\ outcomes' = <<>>
    /\ sleeps' = <<>>
    /\ save_msgs' = {}
    /\ save_pc' = "loop"
    /\ op' = NoOp
    /\ UNCHANGED <<table, next_id, returned_ids, open_sessions>>
    /\ SaveFrame

\* except Exception: warn and sleep, or report after the last pass
HandleException ==
    /\ IF ShouldRetry(attempt)
       THEN /\ save_msgs' = save_msgs \cup {RetryWarning}
            /\ sleeps' = Append(sleeps, SaveSleep)
            /\ save_pc' = "loop"
       ELSE /\ save_msgs' = save_msgs \cup {DatabaseError, TryLater}
            /\ sleeps' = sleeps
            /\ save_pc' = "done"
    /\ attempt' = attempt + 1

\* save_analysis returns the id: success message, break
AttemptReturns ==
    /\ save_pc = "loop"
    /\ attempt < retry_attempts
    /\ table' = table \cup {NewRow(save_request, next_id, clock)}
    /\ next_id' = next_id + 1
    /\ returned_ids' = returned_ids \cup {next_id}
    /\ op' = Returned("save_analysis", save_request, next_id)
    /\ outcomes' = Append(outcomes, "returned")
    /\ save_msgs' = save_msgs \cup {SavedMessage}
    /\ save_pc' = "done"
    /\ open_sessions' = Closed(Opened(open_sessions), "returned")
    /\ UNCHANGED <<attempt, sleeps, save_request>>
    /\ SaveFrame

\* save_analysis raises and has committed nothing
AttemptRaises ==
    /\ save_pc = "loop"
    /\ attempt < retry_attempts
    /\ op' = RaisedIn("save_analysis", save_request, OperationalError)
    /\ outcomes' = Append(outcomes, "raised")
    /\ HandleException
    /\ open_sessions' = Closed(Opened(open_sessions), "raised")
    /\ UNCHANGED <<table, next_id, returned_ids, save_request>>
    /\ SaveFrame

\* save_analysis raises on reading analysis.id, the row being committed
AttemptRaisesAfterCommit ==
    /\ save_pc = "loop"
    /\ attempt < retry_attempts
    /\ table' = table \cup {NewRow(save_request, next_id, clock)}
    /\ next_id' = next_id + 1
    /\ op' = RaisedIn("save_analysis", save_request, OperationalError)
    /\ outcomes' = Append(outcomes, "raised after commit")
    /\ HandleException
    /\ open_sessions' = Closed(Opened(open_sessions), "raised")
    /\ UNCHANGED <<returned_ids, save_request>>
    /\ SaveFrame

NextSave ==
    \/ EnterSaveHandler
    \/ AttemptReturns
    \/ AttemptRaises
    \/ AttemptRaisesAfterCommit
    \/ Tick

SpecSave == InitSave /\ [][NextSave]_vars

(***************************************************************************)
(* Claims about the Save handler.                                          *)
(***************************************************************************)
Failed(i) == outcomes[i] # "returned"

\* C18: one run of the Save handler calls save_analysis at most 3 times
\* and not again after a call that returned; it sleeps 1 second after each
\* failed call that another call follows, and only then; after the third
\* failed call it shows the database error and calls no more.
C18_SaveRetriesAtMostThreeTimes ==
    /\ Len(outcomes) <= 3
    /\ \A i \in 1..Len(outcomes) : i < Len(outcomes) => Failed(i)
    /\ \A i \in 1..Len(sleeps) : sleeps[i] = 1
    /\ Len(sleeps) = Cardinality({i \in 1..Len(outcomes) : Failed(i) /\ i < 3})
    /\ (save_pc = "loop") =>
          /\ Len(outcomes) < 3
          /\ \A i \in 1..Len(outcomes) : Failed(i)
          /\ Len(sleeps) = Len(outcomes)
    /\ (save_pc = "done") =>
          /\ Len(outcomes) >= 1
          /\ \/ /\ ~Failed(Len(outcomes))
                /\ SavedMessage \in save_msgs
                /\ DatabaseError \notin save_msgs
             \/ /\ Len(outcomes) = 3
                /\ \A i \in 1..3 : Failed(i)
                /\ DatabaseError \in save_msgs
                /\ SavedMessage \notin save_msgs
                /\ Len(sleeps) = 2

\* three calls failed, two pauses lay between them, the error is shown
C18_Witness ==
    /\ save_pc = "done"
    /\ Len(outcomes) = 3
    /\ \A i \in 1..3 : Failed(i)
    /\ sleeps = <<1, 1>>
    /\ DatabaseError \in save_msgs

\* the passes of the running Save action that inserted a row
Inserting == {i \in 1..Len(outcomes) : outcomes[i] # "raised"}

\* C26 as stated: one Save Analysis action inserts at most one record,
\* whatever the pattern of failures over its passes: a pass of the retry
\* loop adds a row to the table only if no earlier pass of the same action
\* has added one.
C26_OneSaveInsertsAtMostOneRecord ==
    [][(save_pc = "loop" /\ table' # table) => Inserting = {}]_vars

(***************************************************************************)
(* saved_analyses.py and database.py: one load of the list of saved        *)
(* analyses (SpecList).  The page calls get_all_analyses in a retry loop   *)
(* of its own; get_all_analyses retries its query.  A step is one query    *)
(* and everything the two loops do until the next query is sent.           *)
(***************************************************************************)
max_retries == 3
InitialBackoff == 1
page_max_retries == 3
PageSleep == 1

PageWarning == "Database connection issue. Retrying..."
PageError == "Error retrieving analyses after 3 attempts"
PageInfo == "Please try refreshing the page or check database connection settings."

\* the stores a page may be opened on: up to MaxSaves records, created in
\* the order of their ids
StoredTables ==
    {t \in SUBSET {NewRow(d, i, c) : d \in AnalysisDataChoices, i \in Ids,
                                      c \in Instants} :
        /\ \E n \in 0..MaxSaves : {r.id : r \in t} = 1..n
        /\ \A r, q \in t : r.id = q.id => r = q
        /\ \A r, q \in t : r.id < q.id => r.created_at <= q.created_at}

InitList ==
    /\ table \in StoredTables
    /\ next_id = Cardinality(table) + 1
    /\ clock = 1
    /\ sess = [s \in Sessions |-> IdleSession]
    /\ op = NoOp
    /\ returned_ids = {r.id : r \in table}
    /\ open_sessions = 0
    /\ ListIdle
    /\ ManageIdle
    /\ CalcIdle
    /\ BudgetIdle
    /\ UrlIdle
    /\ AppIdle
    /\ SaveIdle

ListFrame == UNCHANGED <<calcVars, budgetVars, urlVars, appVars, saveVars,
                         manageVars, table, next_id, clock, sess,
                         returned_ids>>

\* the script of the page starts and calls get_all_analyses(limit=50)
LoadPage ==
    /\ list_pc \in {"none", "done"}
    /\ page_retry' = 0
    /\ analyses' = NoResult
    /\ retry_count' = 0
    /\ backoff_time' = InitialBackoff
    /\ queries' = 0
    /\ list_sleeps' = <<>>
    /\ list_msgs' = {}
    /\ list_pc' = "query"
    /\ op' = NoOp
    /\ UNCHANGED open_sessions
    /\ ListFrame

\* the query is answered: get_all_analyses returns, the page leaves its loop
QuerySucceeds ==
    /\ list_pc = "query"
    /\ queries' = queries + 1
    /\ \E rows \in OrderByCreatedAtDesc(table) :
          /\ analyses' = Limit(rows, PageLimit)
          /\ op' = Returned("get_all_analyses", PageLimit,
                            Limit(rows, PageLimit))
    /\ list_pc' = "done"
    /\ open_sessions' = Closed(Opened(open_sessions), "returned")
    /\ UNCHANGED <<page_retry, retry_count, backoff_time, list_sleeps,
                   list_msgs>>
    /\ ListFrame

\* a mutant of InnerRetry: one more round
InnerRetryOnceMore(count) == count <= max_retries

\* get_all_analyses goes round again after the exception of a query
InnerRetry(count) == count < max_retries

\* the page calls get_all_analyses again after its exception
PageRetry(count) == count < page_max_retries

\* the query fails: get_all_analyses sleeps and asks again, or raises to
\* the page, which sleeps and calls again, or gives up
QueryFails ==
    /\ list_pc = "query"
    /\ queries' = queries + 1
    /\ open_sessions' = Closed(Opened(open_sessions), "raised")
    /\ IF InnerRetry(retry_count + 1)
       THEN /\ retry_count' = retry_count + 1
            /\ list_sleeps' = Append(list_sleeps, backoff_time)
            /\ backoff_time' = backoff_time * 2
            /\ op' = NoOp
            /\ UNCHANGED <<page_retry, list_msgs, list_pc, analyses>>
       ELSE /\ op' = RaisedIn("get_all_analyses", PageLimit, OperationalError)
            /\ page_retry' = page_retry + 1
            /\ IF PageRetry(page_retry + 1)
               THEN /\ list_msgs' = list_msgs \cup {PageWarning}
                    /\ list_sleeps' = Append(list_sleeps, PageSleep)
                    /\ retry_count' = 0
                    /\ backoff_time' = InitialBackoff
                    /\ UNCHANGED <<list_pc, analyses>>
               ELSE /\ list_msgs' = list_msgs \cup {PageError, PageInfo}
                    /\ analyses' = NoResult
                    /\ list_pc' = "done"
                    /\ retry_count' = retry_count + 1
                    /\ UNCHANGED <<list_sleeps, backoff_time>>
    /\ ListFrame

NextList ==
    \/ LoadPage
    \/ QuerySucceeds
    \/ QueryFails

SpecList == InitList /\ [][NextList]_vars

(***************************************************************************)
(* Claims about the list page.                                             *)
(***************************************************************************)
\* C19: one load of the list of saved analyses sends at most 3 queries to a
\* store that keeps failing, and after the third shows the failure.
C19_ListLoadQueriesAtMostThree ==
    /\ queries <= 3
    /\ (list_pc = "query" /\ analyses = NoResult /\ queries = 3)
          => PageError \in list_msgs


\* the pauses the running call of get_all_analyses has taken: one after
\* each of its retry_count failed queries so far
CallPauses ==
    SubSeq(list_sleeps, Len(list_sleeps) - retry_count + 1, Len(list_sleeps))

\* get_all_analyses raises to the page in this step
GetAllAnalysesRaises ==
    /\ list_pc = "query"
    /\ op'.name = "get_all_analyses"
    /\ op'.raised

\* C22 as stated: a call of get_all_analyses whose queries all fail has
\* paused 1 s, 2 s and 4 s when it raises.
C22_BackoffOneTwoFour ==
    [][GetAllAnalysesRaises => CallPauses = <<1, 2, 4>>]_vars

\* C22 amended: a call of get_all_analyses whose queries all fail sends
\* three queries and pauses 1 s after the first and 2 s after the second,
\* each pause double the one before, starting at 1 second; the third
\* failure is raised at once, with no pause of 4 s.
C22_BackoffOneTwo ==
    /\ [](list_pc = "query" =>
            /\ retry_count < max_retries
            /\ retry_count <= Len(list_sleeps)
            /\ \A i \in 1..retry_count :
                  CallPauses[i] = IF i = 1 THEN 1 ELSE 2 * CallPauses[i - 1])
    /\ [][GetAllAnalysesRaises =>
            /\ CallPauses = <<1, 2>>
            /\ retry_count = 2
            /\ Len(list_sleeps') <= Len(list_sleeps) + 1
            /\ Len(list_sleeps') = Len(list_sleeps) + 1
                  => list_sleeps'[Len(list_sleeps')] = PageSleep]_vars

\* the first call of a page has raised after its pauses of 1 s and 2 s, and
\* the page has slept its own second
C22_Witness ==
    /\ list_pc = "query"
    /\ op.name = "get_all_analyses"
    /\ op.raised
    /\ queries = 3
    /\ list_sleeps = <<1, 2, 1>>


(***************************************************************************)
(* Callers that save, update and delete in concurrent sessions (SpecRace). *)
(***************************************************************************)
NextRace ==
    \/ \E s \in Sessions : SaveAnalysisInsert(s)
    \/ \E s \in Sessions : SaveAnalysisCommit(s)
    \/ \E s \in Sessions : SaveAnalysisReturn(s)
    \/ \E s \in Sessions : UpdateAnalysisNotesSelect(s)
    \/ \E s \in Sessions : UpdateAnalysisNotesCommit(s)
    \/ \E s \in Sessions : DeleteAnalysisSelect(s)
    \/ \E s \in Sessions : DeleteAnalysisCommit(s)
    \/ \E s \in Sessions : TransportFailure(s)

SpecRace == InitStore /\ [][NextRace]_vars

(***************************************************************************)
(* saved_analyses.py: the page of saved analyses open in two browsers      *)
(* (SpecPage).  Every event of a widget starts a run of the script, which  *)
(* loads the list again before it reaches the widgets; the handler of a    *)
(* clicked button makes its call in a later step, so that the other        *)
(* browser may act in between.  A call of the store is taken whole.        *)
(***************************************************************************)
NoSavedInfo == "No saved analyses found."
UpdateSuccess == "Notes updated successfully."
UpdateFailed == "Failed to update notes."
DeleteSuccess == "Analysis deleted successfully."
DeleteFailed == "Failed to delete analysis."
\* what Streamlit shows for an exception that leaves the script
UncaughtException == "uncaught exception"

\* value=selected_analysis.notes if selected_analysis.notes else ""
NotesDefault(row) ==
    IF row.notes # NoneText /\ row.notes # <<>> THEN row.notes ELSE <<>>

\* a widget without a key is known by its label and its default: it returns
\* what the browser holds for it, and its default when it is new
WidgetValue(had, old_default, held, default) ==
    IF had /\ old_default = default THEN held ELSE default

\* one run of the script on the list rows, for the browser state prev and
\* the button clicked, if any
RenderPage(prev, rows, clicked) ==
    IF rows = <<>>
    THEN [ClosedPage EXCEPT !.pc = "shown", !.shown = {NoSavedInfo}]
    ELSE LET selected_analysis == rows[1]
         IN  [pc |-> IF clicked = "none" THEN "shown" ELSE "handler",
              widgets |-> TRUE,
              selected |-> selected_analysis,
              notes |-> WidgetValue(prev.widgets,
                                    IF prev.widgets
                                    THEN NotesDefault(prev.selected)
                                    ELSE <<>>,
                                    prev.notes,
                                    NotesDefault(selected_analysis)),
              is_saved |-> WidgetValue(prev.widgets,
                                       IF prev.widgets
                                       THEN prev.selected.is_saved
                                       ELSE FALSE,
                                       prev.is_saved,
                                       selected_analysis.is_saved),
              button |-> clicked,
              calls |-> 0,
              raised |-> FALSE,
              shown |-> {}]

\* the page is opened on a store that holds one record
InitPage ==
    /\ table \in {t \in StoredTables : Cardinality(t) = 1}
    /\ next_id = Cardinality(table) + 1
    /\ clock = 1
    /\ sess = [s \in Sessions |-> IdleSession]
    /\ op = NoOp
    /\ returned_ids = {r.id : r \in table}
    /\ open_sessions = 0
    /\ ManageIdle
    /\ ListIdle
    /\ CalcIdle
    /\ BudgetIdle
    /\ UrlIdle
    /\ AppIdle
    /\ SaveIdle

PageFrame == UNCHANGED <<calcVars, budgetVars, urlVars, appVars, saveVars,
                         listVars, next_id, clock, sess, returned_ids>>

\* a run of the script in browser s: get_all_analyses(limit=50), then the
\* widgets
RunPage(s, prev, clicked) ==
    /\ \E rows \in OrderByCreatedAtDesc(table) :
          /\ op' = Returned("get_all_analyses", PageLimit,
                            Limit(rows, PageLimit))
          /\ page' = [page EXCEPT
                         ![s] = RenderPage(prev, Limit(rows, PageLimit),
                                           clicked)]
    /\ open_sessions' = Closed(Opened(open_sessions), "returned")
    /\ UNCHANGED table
    /\ PageFrame

OpenPage(s) ==
    /\ page[s].pc = "closed"
    /\ RunPage(s, page[s], "none")

\* st.rerun()
Rerun(s) ==
    /\ page[s].pc = "rerun"
    /\ RunPage(s, page[s], "none")

\* the user writes other notes into the text area
TypeNotes(s) ==
    /\ page[s].pc = "shown"
    /\ page[s].widgets
    /\ \E notes \in NotesChoices :
          /\ notes # page[s].notes
          /\ RunPage(s, [page[s] EXCEPT !.notes = notes], "none")

\* the user ticks or unticks "Mark as favorite"
ToggleFavorite(s) ==
    /\ page[s].pc = "shown"
    /\ page[s].widgets
    /\ RunPage(s, [page[s] EXCEPT !.is_saved = ~page[s].is_saved], "none")

ClickUpdateNotes(s) ==
    /\ page[s].pc = "shown"
    /\ page[s].widgets
    /\ RunPage(s, page[s], "Update Notes")

ClickDeleteAnalysis(s) ==
    /\ page[s].pc = "shown"
    /\ page[s].widgets
    /\ RunPage(s, page[s], "Delete Analysis")

\* if update_analysis_notes(selected_analysis.id, notes, is_saved): ...
UpdateNotesHandler(s) ==
    /\ page[s].pc = "handler"
    /\ page[s].button = "Update Notes"
    /\ LET args == [analysis_id |-> page[s].selected.id,
                    notes |-> page[s].notes,
                    is_saved |-> [none |-> FALSE,
                                  value |-> page[s].is_saved]]
           found == First(table, args.analysis_id)
       IN  IF found = NoRow
           THEN /\ op' = Returned("update_analysis_notes", args, FALSE)
                /\ UNCHANGED table
                /\ page' = [page EXCEPT ![s].pc = "shown",
                                        ![s].button = "none",
                                        ![s].calls = @ + 1,
                                        ![s].shown = {UpdateFailed}]
           ELSE /\ op' = Returned("update_analysis_notes", args, TRUE)
                /\ table' = (table \ {found}) \cup
                               {ApplyUpdate(found, found, args.notes,
                                            args.is_saved)}
                /\ page' = [page EXCEPT ![s].pc = "rerun",
                                        ![s].button = "none",
                                        ![s].calls = @ + 1,
                                        ![s].shown = {UpdateSuccess}]
    /\ open_sessions' = Closed(Opened(open_sessions), "returned")
    /\ PageFrame

\* if delete_analysis(selected_analysis.id): ...
DeleteAnalysisHandler(s) ==
    /\ page[s].pc = "handler"
    /\ page[s].button = "Delete Analysis"
    /\ LET analysis_id == page[s].selected.id
           found == First(table, analysis_id)
       IN  IF found = NoRow
           THEN /\ op' = Returned("delete_analysis", analysis_id, FALSE)
                /\ UNCHANGED table
                /\ page' = [page EXCEPT ![s].pc = "shown",
                                        ![s].button = "none",
                                        ![s].calls = @ + 1,
                                        ![s].shown = {DeleteFailed}]
           ELSE /\ op' = Returned("delete_analysis", analysis_id, TRUE)
                /\ table' = DeleteRow(table, analysis_id)
                /\ page' = [page EXCEPT ![s].pc = "rerun",
                                        ![s].button = "none",
                                        ![s].calls = @ + 1,
                                        ![s].shown = {DeleteSuccess}]
    /\ open_sessions' = Closed(Opened(open_sessions), "returned")
    /\ PageFrame

\* the transport fails the call of the handler: neither handler has a try
\* block, the exception leaves the script
HandlerCallRaises(s) ==
    /\ page[s].pc = "handler"
    /\ op' = RaisedIn(IF page[s].button = "Update Notes"
                      THEN "update_analysis_notes" ELSE "delete_analysis",
                      NoArgs, OperationalError)
    /\ page' = [page EXCEPT ![s].pc = "shown",
                            ![s].button = "none",
                            ![s].calls = @ + 1,
                            ![s].raised = TRUE,
                            ![s].shown = {UncaughtException}]
    /\ open_sessions' = Closed(Opened(open_sessions), "raised")
    /\ UNCHANGED table
    /\ PageFrame

NextPage ==
    \/ \E s \in Sessions : OpenPage(s)
    \/ \E s \in Sessions : Rerun(s)
    \/ \E s \in Sessions : TypeNotes(s)
    \/ \E s \in Sessions : ToggleFavorite(s)
    \/ \E s \in Sessions : ClickUpdateNotes(s)
    \/ \E s \in Sessions : ClickDeleteAnalysis(s)
    \/ \E s \in Sessions : UpdateNotesHandler(s)
    \/ \E s \in Sessions : DeleteAnalysisHandler(s)
    \/ \E s \in Sessions : HandlerCallRaises(s)

SpecPage == InitPage /\ [][NextPage]_vars
(***************************************************************************)
(* Claims about sessions, transactions and concurrent callers.             *)
(***************************************************************************)
InCall == {s \in Sessions : sess[s] # IdleSession}

\* C23: save_analysis, get_all_analyses, get_analysis_by_id,
\* delete_analysis and update_analysis_notes close the session they opened
\* whichever way they are left (return, not found, exception): the open
\* sessions are those of the calls in progress, one each, and when no call
\* is in progress none is open.
C23_EverySessionClosed ==
    /\ open_sessions = Cardinality(InCall)
    /\ InCall = {} => open_sessions = 0

\* a save_analysis that had sent its INSERT was failed by the transport
\* and has raised, next to a record stored before
C23_Witness ==
    /\ op.name = "save_analysis"
    /\ op.raised
    /\ op.args # NoArgs
    /\ table # {}
    /\ InCall = {}
    /\ open_sessions = 0

\* the call of session s ends in this step by raising
CallRaises(s) ==
    /\ sess[s] # IdleSession
    /\ sess'[s] = IdleSession
    /\ op'.raised

\* C24 as stated: a save_analysis, update_analysis_notes or delete_analysis
\* that returns has committed, so that the store then shows its effect; one
\* that raises has rolled back, so that the committed rows are what they
\* were before the call: the step that raises changes no row, and the row
\* of a save_analysis that raises is not in the store.
C24_ReturnCommittedRaiseRolledBack ==
    [][/\ (op'.name = "save_analysis" /\ ~op'.raised)
             => HasId(table', op'.ret)
       /\ \A s \in Sessions :
             /\ (DeleteCompletes(s) /\ op'.ret = TRUE)
                   => ~HasId(table', sess[s].args)
             /\ (UpdateCompletes(s) /\ op'.ret = TRUE)
                   => /\ HasId(table', sess[s].args.analysis_id)
                      /\ RowOf(table', sess[s].args.analysis_id).notes =
                             sess[s].args.notes
             /\ CallRaises(s)
                   => /\ table' = table
                      /\ sess[s].call = "save_analysis"
                            => sess[s].row \notin table'
       /\ (op' # NoOp /\ op'.raised) => table' = table]_vars

\* the update_analysis_notes or delete_analysis of session s, which had
\* found its record, ends in this step
EndsAfterLookup(s) ==
    /\ sess[s].pc = "loaded"
    /\ sess'[s] = IdleSession

TargetOf(s) ==
    IF sess[s].call = "delete_analysis" THEN sess[s].args
    ELSE sess[s].args.analysis_id

\* C25 as stated: whatever save_analysis, update_analysis_notes and
\* delete_analysis calls of other sessions come in between, an
\* update_analysis_notes or delete_analysis either returns False, its id
\* having no record, or returns True having acted on the committed record
\* of that id, which is there when it commits; it ends in no other way
\* (the failure of the transport apart), also when another session removes
\* the record between its lookup and its commit; and every row of the store
\* is a row as some save_analysis built it, with notes and favorite flag as
\* some call set them.
C25_UpdateDeleteActOnCommittedRecordOrNotFound ==
    [][/\ \A s \in Sessions : EndsAfterLookup(s) =>
             IF op'.raised THEN op'.ret = OperationalError
             ELSE /\ op'.ret = TRUE
                  /\ HasId(table, TargetOf(s))
       /\ (op'.name \in {"update_analysis_notes", "delete_analysis"}
              /\ ~op'.raised /\ op'.ret = FALSE)
             => ~HasId(table, IdOf(op'))
       /\ \A r \in table' :
             \/ r \in table
             \/ \E s \in Sessions : sess[s].pc = "inserted" /\ sess[s].row = r
             \/ \E s \in Sessions, q \in table :
                   /\ sess[s].pc = "loaded"
                   /\ sess[s].call = "update_analysis_notes"
                   /\ q.id = r.id
                   /\ r = [q EXCEPT !.notes = r.notes,
                                    !.is_saved = r.is_saved]
                   /\ r.notes \in {q.notes, sess[s].args.notes}]_vars

\* the Update Notes of browser s has returned True and its st.rerun() has
\* not run yet: the page still holds what it sent
UpdateNotesDone(s) ==
    /\ page[s].pc = "rerun"
    /\ page[s].shown = {UpdateSuccess}

ChangedOnlyFavorite(s) ==
    /\ page[s].is_saved # page[s].selected.is_saved
    /\ page[s].notes = NotesDefault(page[s].selected)

ChangedOnlyNotes(s) ==
    /\ page[s].notes # NotesDefault(page[s].selected)
    /\ page[s].is_saved = page[s].selected.is_saved

\* C30 as stated: when browser a changes only the favorite flag of a record
\* and browser b only its notes, each on the record as its list showed it
\* before the update of the other, then once both Update Notes have
\* returned the stored record has the flag of a and the notes of b.
C30_NoLostUpdate ==
    \A a, b \in Sessions :
        (/\ a # b
         /\ UpdateNotesDone(a)
         /\ UpdateNotesDone(b)
         /\ page[a].selected = page[b].selected
         /\ ChangedOnlyFavorite(a)
         /\ ChangedOnlyNotes(b))
        => /\ HasId(table, page[a].selected.id)
           /\ RowOf(table, page[a].selected.id).is_saved = page[a].is_saved
           /\ RowOf(table, page[a].selected.id).notes = page[b].notes

\* C21 as stated: a failure of the transport in a persistence call of a
\* handler of the page is retried, the call being made again up to a fixed
\* number of times, and then shown to the user; it is not swallowed.
C21_TransportFailureRetriedThenShown ==
    \A s \in Sessions :
        page[s].raised => (page[s].calls > 1 /\ page[s].shown # {})
=============================================================================
